---- MODULE Spec2Model ----
(***************************************************************************)
(* Model of the MESMTF backend: the malaria / typhoid expert system of     *)
(* backend/controllers/diagnosisController.js together with the request    *)
(* pipeline of the diagnosis routes (validation chain, then handler).      *)
(*                                                                         *)
(* Strings that the code transforms (symptom names: trim, toLowerCase,     *)
(* includes) are sequences of one-character strings, so that the           *)
(* conversions are computed and not assumed.  Enumerated values            *)
(* (severity, lab outcome, risk level) are TLA+ strings; the string        *)
(* "undefined" stands for a JavaScript property that is not present.       *)
(* An optional object is <<>> when it is absent and <<obj>> when present.  *)
(***************************************************************************)
EXTENDS Integers, Sequences, FiniteSets, TLC

\* ------------------------------------------------------------------------
\* Bounds of the model
\* ------------------------------------------------------------------------

\* longest symptom list of a request
MaxLen == 5

\* number of assessment calls the server works on at the same time
MaxInFlight == 2

\* longest symptom list built from every kind of entry; longer lists, up
\* to MaxLen, are built from the entries with a well-formed name
ShortLen == 3

\* ------------------------------------------------------------------------
\* JavaScript strings as character sequences
\* ------------------------------------------------------------------------

UpperChars == <<"A","B","C","D","E","F","G","H","I","J","K","L","M",
                "N","O","P","Q","R","S","T","U","V","W","X","Y","Z">>

LowerChars == <<"a","b","c","d","e","f","g","h","i","j","k","l","m",
                "n","o","p","q","r","s","t","u","v","w","x","y","z">>

Whitespace == {" "}

\* the value of a property that is not there
Undefined == "undefined"

\* a symptom name that is not there (s.symptom is undefined)
UndefinedName == <<Undefined>>

\* the characters symptom names are written in
Characters ==
  {UpperChars[i] : i \in 1..Len(UpperChars)}
    \cup {LowerChars[i] : i \in 1..Len(LowerChars)}
    \cup Whitespace \cup {Undefined}

LowerCaseOf ==
  [c \in Characters |->
     IF \E i \in 1..Len(UpperChars) : UpperChars[i] = c
       THEN LowerChars[CHOOSE i \in 1..Len(UpperChars) : UpperChars[i] = c]
       ELSE c]

ToLowerChar(c) == LowerCaseOf[c]

\* String.prototype.toLowerCase
ToLowerCase(str) == [i \in 1..Len(str) |-> ToLowerChar(str[i])]

RECURSIVE TrimStart(_)
TrimStart(str) ==
  IF str # <<>> /\ Head(str) \in Whitespace THEN TrimStart(Tail(str)) ELSE str

RECURSIVE TrimEnd(_)
TrimEnd(str) ==
  IF str # <<>> /\ str[Len(str)] \in Whitespace
    THEN TrimEnd(SubSeq(str, 1, Len(str) - 1))
    ELSE str

\* validator.js trim
Trim(str) == TrimEnd(TrimStart(str))

\* Array.prototype.includes
Includes(arr, x) == \E i \in 1..Len(arr) : arr[i] = x

\* ------------------------------------------------------------------------
\* Symptom catalogs
\* ------------------------------------------------------------------------

malariaSymptoms ==
  << <<"f", "e", "v", "e", "r">>,
     <<"c", "h", "i", "l", "l", "s">>,
     <<"h", "e", "a", "d", "a", "c", "h", "e">>,
     <<"m", "u", "s", "c", "l", "e", " ", "a", "c", "h", "e", "s">>,
     <<"f", "a", "t", "i", "g", "u", "e">>,
     <<"n", "a", "u", "s", "e", "a">>,
     <<"v", "o", "m", "i", "t", "i", "n", "g">>,
     <<"d", "i", "a", "r", "r", "h", "e", "a">>,
     <<"a", "b", "d", "o", "m", "i", "n", "a", "l", " ", "p", "a", "i", "n">>,
     <<"s", "w", "e", "a", "t", "i", "n", "g">>,
     <<"s", "h", "i", "v", "e", "r", "i", "n", "g">> >>

typhoidSymptoms ==
  << <<"f", "e", "v", "e", "r">>,
     <<"h", "e", "a", "d", "a", "c", "h", "e">>,
     <<"w", "e", "a", "k", "n", "e", "s", "s">>,
     <<"s", "t", "o", "m", "a", "c", "h", " ", "p", "a", "i", "n">>,
     <<"c", "o", "n", "s", "t", "i", "p", "a", "t", "i", "o", "n">>,
     <<"d", "i", "a", "r", "r", "h", "e", "a">>,
     <<"l", "o", "s", "s", " ", "o", "f", " ", "a", "p", "p", "e", "t", "i", "t", "e">>,
     <<"r", "a", "s", "h">>,
     <<"e", "n", "l", "a", "r", "g", "e", "d", " ", "s", "p", "l", "e", "e", "n">>,
     <<"r", "o", "s", "e", " ", "s", "p", "o", "t", "s">>,
     <<"d", "r", "y", " ", "c", "o", "u", "g", "h">> >>

\* ------------------------------------------------------------------------
\* Request bodies
\* ------------------------------------------------------------------------

Severities == {"mild", "moderate", "severe"}

LabOutcomes == {"positive", "negative", "not-done"}

\* obj?.field for a field holding a plain value
Get(opt, field) ==
  IF opt = <<>> THEN Undefined
  ELSE IF field \in DOMAIN opt[1] THEN opt[1][field] ELSE Undefined

\* obj?.field for a field holding an optional object
GetObj(opt, field) == IF opt = <<>> THEN <<>> ELSE opt[1][field]

fever      == <<"f","e","v","e","r">>
paddedChills == <<" ","C","h","i","l","l","s">>
upperRash  == <<"R","A","S","H">>
alienItch  == <<"a","l","i","e","n"," ","i","t","c","h">>
emptyName  == <<>>

\* symptom entries a request of the standalone assessment is built from
AssessEntries ==
  { [symptom |-> fever,         severity |-> "mild",    duration |-> Undefined],
    [symptom |-> paddedChills,  severity |-> "severe",  duration |-> "2 days"],
    [symptom |-> upperRash,     severity |-> "extreme", duration |-> Undefined],
    [symptom |-> alienItch,     severity |-> Undefined, duration |-> "1 week"],
    [symptom |-> emptyName,     severity |-> "mild",    duration |-> Undefined],
    [symptom |-> UndefinedName, severity |-> Undefined, duration |-> Undefined] }

\* the entries with a name that passes the routes' validation
ScoringEntries ==
  { e \in AssessEntries : e.symptom \in {fever, paddedChills, upperRash} }

MalariaTests(r, m) == <<[rapidTest |-> r, microscopy |-> m]>>

TyphoidTests(w, b) == <<[widalTest |-> w, bloodCulture |-> b]>>

TestResults(m, t) == <<[malaria |-> m, typhoid |-> t]>>

\* every lab-result object of one disease, absent included
AllMalariaTests ==
  {<<>>} \cup {MalariaTests(r, m) : r \in LabOutcomes \cup {Undefined},
                                    m \in LabOutcomes \cup {Undefined}}

AllTyphoidTests ==
  {<<>>} \cup {TyphoidTests(w, b) : w \in LabOutcomes \cup {Undefined},
                                    b \in LabOutcomes \cup {Undefined}}

\* testResults values a request of the standalone assessment carries
AssessTestResults ==
  { <<>>,
    TestResults(<<>>, <<>>),
    TestResults(MalariaTests("positive", Undefined), <<>>),
    TestResults(MalariaTests("negative", "positive"),
                TyphoidTests("negative", "not-done")),
    TestResults(MalariaTests("not-done", "not-done"),
                TyphoidTests("positive", Undefined)),
    TestResults(MalariaTests("positive", "positive"),
                TyphoidTests("negative", "positive")),
    TestResults(<<>>, TyphoidTests("positive", "positive")),
    TestResults(MalariaTests("negative", "negative"), <<>>) }

RECURSIVE SeqsUpTo(_, _)
SeqsUpTo(S, n) ==
  IF n = 0 THEN {<<>>}
  ELSE LET shorter == SeqsUpTo(S, n - 1)
       IN  shorter \cup {Append(q, e) : q \in {s \in shorter : Len(s) = n - 1}, e \in S}

\* symptom lists: every list of at most ShortLen entries, and every list of
\* at most MaxLen entries with a well-formed name
SymptomLists(entries, wellFormed) ==
  SeqsUpTo(entries, ShortLen) \cup SeqsUpTo(wellFormed, MaxLen)

\* the symptoms field: absent, a non-array value, or an array of entries
SymptomsFields(lists) ==
  { [kind |-> "absent", items |-> <<>>], [kind |-> "string", items |-> <<>>] }
    \cup { [kind |-> "array", items |-> q] : q \in lists }

AssessBodies ==
  { [symptoms |-> s, testResults |-> t] :
      s \in SymptomsFields(SymptomLists(AssessEntries, ScoringEntries)),
      t \in AssessTestResults }

\* ------------------------------------------------------------------------
\* Expert system (diagnosisController.js)
\* ------------------------------------------------------------------------

\* s.symptom.toLowerCase() throws a TypeError when s.symptom is undefined
ThrowsTypeError(symptoms) ==
  \E i \in 1..Len(symptoms) : symptoms[i].symptom = UndefinedName

MatchesMalaria_CaseSensitive(s) == Includes(malariaSymptoms, s.symptom)

MatchesMalaria(s) == Includes(malariaSymptoms, ToLowerCase(s.symptom))

MatchesTyphoid(s) == Includes(typhoidSymptoms, ToLowerCase(s.symptom))

\* mutant: microscopy is not consulted
assessMalariaRisk_NoMicroscopy(symptoms, testResults) ==
  LET malariaScore == Len(SelectSeq(symptoms, MatchesMalaria))
      riskLevel ==
        IF malariaScore >= 5 \/ Get(testResults, "rapidTest") = "positive"
          THEN "high"
          ELSE IF malariaScore >= 3 THEN "moderate" ELSE "low"
  IN  [riskLevel |-> riskLevel, score |-> malariaScore]

\* mutant: 'high' by score only at exactly 5
assessMalariaRisk_ExactlyFive(symptoms, testResults) ==
  LET malariaScore == Len(SelectSeq(symptoms, MatchesMalaria))
      riskLevel ==
        IF \/ malariaScore = 5
           \/ Get(testResults, "rapidTest") = "positive"
           \/ Get(testResults, "microscopy") = "positive"
          THEN "high"
          ELSE IF malariaScore >= 3 THEN "moderate" ELSE "low"
  IN  [riskLevel |-> riskLevel, score |-> malariaScore]

assessMalariaRisk(symptoms, testResults) ==
  LET malariaScore == Len(SelectSeq(symptoms, MatchesMalaria))
      riskLevel ==
        IF \/ malariaScore >= 5
           \/ Get(testResults, "rapidTest") = "positive"
           \/ Get(testResults, "microscopy") = "positive"
          THEN "high"
          ELSE IF malariaScore >= 3 THEN "moderate" ELSE "low"
  IN  [riskLevel |-> riskLevel, score |-> malariaScore]

SevereMatchesTyphoid(s) == MatchesTyphoid(s) /\ s.severity = "severe"

\* mutant: a severe symptom counts twice
assessTyphoidRisk_Weighted(symptoms, testResults) ==
  LET typhoidScore == Len(SelectSeq(symptoms, MatchesTyphoid))
                        + Len(SelectSeq(symptoms, SevereMatchesTyphoid))
      riskLevel ==
        IF \/ typhoidScore >= 5
           \/ Get(testResults, "widalTest") = "positive"
           \/ Get(testResults, "bloodCulture") = "positive"
          THEN "high"
          ELSE IF typhoidScore >= 3 THEN "moderate" ELSE "low"
  IN  [riskLevel |-> riskLevel, score |-> typhoidScore]

\* mutant: 'moderate' only above 3
assessTyphoidRisk_Strict(symptoms, testResults) ==
  LET typhoidScore == Len(SelectSeq(symptoms, MatchesTyphoid))
      riskLevel ==
        IF \/ typhoidScore >= 5
           \/ Get(testResults, "widalTest") = "positive"
           \/ Get(testResults, "bloodCulture") = "positive"
          THEN "high"
          ELSE IF typhoidScore > 3 THEN "moderate" ELSE "low"
  IN  [riskLevel |-> riskLevel, score |-> typhoidScore]

assessTyphoidRisk(symptoms, testResults) ==
  LET typhoidScore == Len(SelectSeq(symptoms, MatchesTyphoid))
      riskLevel ==
        IF \/ typhoidScore >= 5
           \/ Get(testResults, "widalTest") = "positive"
           \/ Get(testResults, "bloodCulture") = "positive"
          THEN "high"
          ELSE IF typhoidScore >= 3 THEN "moderate" ELSE "low"
  IN  [riskLevel |-> riskLevel, score |-> typhoidScore]

\* mutant: the names are returned lowercased
SymptomNames_Lowercased(symptoms) ==
  [i \in 1..Len(symptoms) |-> ToLowerCase(symptoms[i].symptom)]

\* symptoms.map(s => s.symptom)
SymptomNames(symptoms) == [i \in 1..Len(symptoms) |-> symptoms[i].symptom]

AssessMalariaRecommendation(riskLevel) ==
  IF riskLevel = "high"
    THEN "Immediate malaria testing and treatment recommended"
    ELSE IF riskLevel = "moderate"
      THEN "Consider malaria testing"
      ELSE "Low malaria risk"

AssessTyphoidRecommendation(riskLevel) ==
  IF riskLevel = "high"
    THEN "Immediate typhoid testing and treatment recommended"
    ELSE IF riskLevel = "moderate"
      THEN "Consider typhoid testing"
      ELSE "Low typhoid risk"

\* responses
JsonResponse(status, success, error, data, recs) ==
  [kind |-> "json", status |-> status, success |-> success, error |-> error,
   data |-> data, expertSystemRecommendations |-> recs]

\* next(error): the error is handed to the error-handling middleware
NextError ==
  [kind |-> "next", status |-> 0, success |-> FALSE, error |-> "TypeError",
   data |-> <<>>, expertSystemRecommendations |-> <<>>]

NoResponse ==
  [kind |-> "none", status |-> 0, success |-> FALSE, error |-> Undefined,
   data |-> <<>>, expertSystemRecommendations |-> <<>>]

\* mutant: an empty array is not rejected
ExpertSystemResponse_NoEmptyCheck(b) ==
  LET symptoms    == b.symptoms
      testResults == b.testResults
  IN
  IF symptoms.kind # "array"
    THEN JsonResponse(400, FALSE, "Symptoms array is required", <<>>, <<>>)
    ELSE IF ThrowsTypeError(symptoms.items)
      THEN NextError
      ELSE
        LET malariaAssessment ==
              assessMalariaRisk(symptoms.items, GetObj(testResults, "malaria"))
            typhoidAssessment ==
              assessTyphoidRisk(symptoms.items, GetObj(testResults, "typhoid"))
        IN  JsonResponse(200, TRUE, Undefined,
              << [ malaria |->
                     [ riskLevel |-> malariaAssessment.riskLevel,
                       score     |-> malariaAssessment.score,
                       matchingSymptoms |->
                         SymptomNames(SelectSeq(symptoms.items, MatchesMalaria)),
                       recommendation |->
                         AssessMalariaRecommendation(malariaAssessment.riskLevel) ],
                   typhoid |->
                     [ riskLevel |-> typhoidAssessment.riskLevel,
                       score     |-> typhoidAssessment.score,
                       matchingSymptoms |->
                         SymptomNames(SelectSeq(symptoms.items, MatchesTyphoid)),
                       recommendation |->
                         AssessTyphoidRecommendation(typhoidAssessment.riskLevel) ] ] >>,
              <<>>)

\* mutant: the malaria block reports the typhoid risk level
ExpertSystemResponse_CopyPaste(b) ==
  LET symptoms    == b.symptoms
      testResults == b.testResults
  IN
  IF symptoms.kind # "array" \/ Len(symptoms.items) = 0
    THEN JsonResponse(400, FALSE, "Symptoms array is required", <<>>, <<>>)
    ELSE IF ThrowsTypeError(symptoms.items)
      THEN NextError
      ELSE
        LET malariaAssessment ==
              assessMalariaRisk(symptoms.items, GetObj(testResults, "malaria"))
            typhoidAssessment ==
              assessTyphoidRisk(symptoms.items, GetObj(testResults, "typhoid"))
        IN  JsonResponse(200, TRUE, Undefined,
              << [ malaria |->
                     [ riskLevel |-> typhoidAssessment.riskLevel,
                       score     |-> malariaAssessment.score,
                       matchingSymptoms |->
                         SymptomNames(SelectSeq(symptoms.items, MatchesMalaria)),
                       recommendation |->
                         AssessMalariaRecommendation(malariaAssessment.riskLevel) ],
                   typhoid |->
                     [ riskLevel |-> typhoidAssessment.riskLevel,
                       score     |-> typhoidAssessment.score,
                       matchingSymptoms |->
                         SymptomNames(SelectSeq(symptoms.items, MatchesTyphoid)),
                       recommendation |->
                         AssessTyphoidRecommendation(typhoidAssessment.riskLevel) ] ] >>,
              <<>>)

\* the response getExpertSystemAssessment sends for a request body
ExpertSystemResponse(b) ==
  LET symptoms    == b.symptoms
      testResults == b.testResults
  IN
  IF symptoms.kind # "array" \/ Len(symptoms.items) = 0
    THEN JsonResponse(400, FALSE, "Symptoms array is required", <<>>, <<>>)
    ELSE IF ThrowsTypeError(symptoms.items)
      THEN NextError
      ELSE
        LET malariaAssessment ==
              assessMalariaRisk(symptoms.items, GetObj(testResults, "malaria"))
            typhoidAssessment ==
              assessTyphoidRisk(symptoms.items, GetObj(testResults, "typhoid"))
        IN  JsonResponse(200, TRUE, Undefined,
              << [ malaria |->
                     [ riskLevel |-> malariaAssessment.riskLevel,
                       score     |-> malariaAssessment.score,
                       matchingSymptoms |->
                         SymptomNames(SelectSeq(symptoms.items, MatchesMalaria)),
                       recommendation |->
                         AssessMalariaRecommendation(malariaAssessment.riskLevel) ],
                   typhoid |->
                     [ riskLevel |-> typhoidAssessment.riskLevel,
                       score     |-> typhoidAssessment.score,
                       matchingSymptoms |->
                         SymptomNames(SelectSeq(symptoms.items, MatchesTyphoid)),
                       recommendation |->
                         AssessTyphoidRecommendation(typhoidAssessment.riskLevel) ] ] >>,
              <<>>)

\* ------------------------------------------------------------------------
\* Validation chains of the diagnosis routes (express-validator)
\*
\* A chain is a middleware: it records the errors of its validators on the
\* request, writes the values of its sanitizers back into req.body, and
\* calls next() in every case.  Only a handler that reads
\* validationResult(req) turns the recorded errors into a 400.  The items
\* of a chain run in the order written, so isLength sees the name before
\* trim does.
\* ------------------------------------------------------------------------

\* the string a standard validator or sanitizer sees: undefined becomes ''
ToStringValue(name) == IF name = UndefinedName THEN <<>> ELSE name

ValidationError(field, index) == [field |-> field, index |-> index]

\* body('symptoms').isArray({ min: 1 })
SymptomsArrayErrors(symptoms) ==
  IF symptoms.kind = "array" /\ Len(symptoms.items) >= 1
    THEN {}
    ELSE {ValidationError("symptoms", 0)}

\* body('symptoms.*.symptom').isLength({ min: 2, max: 100 })
SymptomLengthErrors(symptoms) ==
  { ValidationError("symptoms.*.symptom", i) :
      i \in { j \in 1..Len(symptoms.items) :
                \/ Len(ToStringValue(symptoms.items[j].symptom)) < 2
                \/ Len(ToStringValue(symptoms.items[j].symptom)) > 100 } }

\* body('symptoms.*.severity').optional().isIn(['mild', 'moderate', 'severe'])
OptionalSeverityErrors(symptoms) ==
  { ValidationError("symptoms.*.severity", i) :
      i \in { j \in 1..Len(symptoms.items) :
                /\ symptoms.items[j].severity # Undefined
                /\ symptoms.items[j].severity \notin Severities } }

\* body('symptoms.*.symptom') ... .trim(): the sanitized value is written
\* back to req.body for every element of the array
TrimSymptoms(symptoms) ==
  [symptoms EXCEPT
     !.items = [i \in 1..Len(symptoms.items) |->
                  [symptoms.items[i] EXCEPT
                     !.symptom = Trim(ToStringValue(@))]]]

expertSystemValidation(b) ==
  SymptomsArrayErrors(b.symptoms)
    \cup SymptomLengthErrors(b.symptoms)
    \cup OptionalSeverityErrors(b.symptoms)

\* ------------------------------------------------------------------------
\* Diagnosis creation: request bodies
\* ------------------------------------------------------------------------

\* strings that are well-formed ObjectIds
MongoIds == {"p1", "p2", "a1", "a2"}

\* the Patient and Appointment collections
Patients == {"p1"}

Appointments == {"a1"}

\* req.user of the authenticated doctor
RequestUser == [id |-> "d1", role |-> "doctor"]

Species == {"P. falciparum", "P. vivax", "P. ovale", "P. malariae", "mixed"}

twoSpaces == <<" ", " ">>
flu       == <<"f","l","u">>
shortText == <<"x">>

\* symptom entries a diagnosis-creation request is built from
CreateEntries ==
  { [symptom |-> fever,        severity |-> "mild",   duration |-> Undefined],
    [symptom |-> paddedChills, severity |-> "severe", duration |-> "2 days"],
    [symptom |-> twoSpaces,    severity |-> "mild",   duration |-> Undefined] }

MalariaAssessments ==
  { <<>>,
    <<[riskLevel |-> Undefined, testResults |-> <<>>, species |-> Undefined]>>,
    <<[riskLevel |-> "low", testResults |-> MalariaTests("positive", Undefined),
       species |-> "P. vivax"]>>,
    <<[riskLevel |-> "high", testResults |-> MalariaTests("negative", "not-done"),
       species |-> Undefined]>> }

TyphoidAssessments ==
  { <<>>,
    <<[riskLevel |-> "high", testResults |-> TyphoidTests("negative", Undefined)]>>,
    <<[riskLevel |-> Undefined, testResults |-> TyphoidTests("not-done", "positive")]>> }

Envelope(patient, appointment, diagnosisId, primary, confidence) ==
  [patient |-> patient, appointment |-> appointment, diagnosisId |-> diagnosisId,
   diagnosis |-> [primary |-> primary, confidence |-> confidence]]

\* the fields of a diagnosis-creation request other than symptoms and
\* the two assessments
CreateEnvelopes ==
  { Envelope("p1", "a1", "D000001", flu, <<>>),
    Envelope("p1", "a1", Undefined, flu, <<50>>),
    Envelope("p2", "a1", "D000001", flu, <<>>),
    Envelope("p1", "a2", "D000001", flu, <<>>),
    Envelope("bad", "a1", "D000001", flu, <<>>),
    Envelope("p1", Undefined, "D000001", flu, <<>>),
    Envelope("p1", "a1", "D000001", shortText, <<>>),
    Envelope("p1", "a1", "D000001", flu, <<150>>) }

CreateBody(e, s, m, t) ==
  [patient |-> e.patient, appointment |-> e.appointment,
   diagnosisId |-> e.diagnosisId, diagnosis |-> e.diagnosis,
   symptoms |-> s, malariaAssessment |-> m, typhoidAssessment |-> t]

\* the envelopes that name an existing patient and appointment and pass the
\* route's validation
AcceptedEnvelopes ==
  { e \in CreateEnvelopes :
      /\ e.patient \in Patients
      /\ e.appointment \in Appointments
      /\ e.diagnosis.primary = flu
      /\ e.diagnosis.confidence # <<150>> }

CreateBodies ==
  { CreateBody(e, s, m, t) :
      e \in AcceptedEnvelopes,
      s \in SymptomsFields(SymptomLists(CreateEntries, CreateEntries)),
      m \in MalariaAssessments, t \in TyphoidAssessments }
  \cup
  { CreateBody(e, s, m, t) :
      e \in CreateEnvelopes,
      s \in SymptomsFields(SeqsUpTo(CreateEntries, ShortLen)),
      m \in MalariaAssessments, t \in TyphoidAssessments }

\* ------------------------------------------------------------------------
\* createDiagnosisValidation (routes/diagnosis.js)
\* ------------------------------------------------------------------------

\* body('patient').isMongoId(), body('appointment').isMongoId()
MongoIdErrors(field, value) ==
  IF value \in MongoIds THEN {} ELSE {ValidationError(field, 0)}

\* body('symptoms.*.severity').isIn(['mild', 'moderate', 'severe'])
SeverityErrors(symptoms) ==
  { ValidationError("symptoms.*.severity", i) :
      i \in { j \in 1..Len(symptoms.items) :
                symptoms.items[j].severity \notin Severities } }

\* body('diagnosis.primary').isLength({ min: 3, max: 200 })
PrimaryErrors(primary) ==
  IF Len(ToStringValue(primary)) < 3 \/ Len(ToStringValue(primary)) > 200
    THEN {ValidationError("diagnosis.primary", 0)}
    ELSE {}

\* body('diagnosis.confidence').optional().isFloat({ min: 0, max: 100 })
ConfidenceErrors(confidence) ==
  IF confidence # <<>> /\ (confidence[1] < 0 \/ confidence[1] > 100)
    THEN {ValidationError("diagnosis.confidence", 0)}
    ELSE {}

\* mutant: the symptoms array is not validated
createDiagnosisValidation_NoArrayCheck(b) ==
  MongoIdErrors("patient", b.patient)
    \cup MongoIdErrors("appointment", b.appointment)
    \cup SymptomLengthErrors(b.symptoms)
    \cup SeverityErrors(b.symptoms)
    \cup PrimaryErrors(b.diagnosis.primary)
    \cup ConfidenceErrors(b.diagnosis.confidence)

createDiagnosisValidation(b) ==
  MongoIdErrors("patient", b.patient)
    \cup MongoIdErrors("appointment", b.appointment)
    \cup SymptomsArrayErrors(b.symptoms)
    \cup SymptomLengthErrors(b.symptoms)
    \cup SeverityErrors(b.symptoms)
    \cup PrimaryErrors(b.diagnosis.primary)
    \cup ConfidenceErrors(b.diagnosis.confidence)

\* ------------------------------------------------------------------------
\* Diagnosis model (models/Diagnosis.js)
\* ------------------------------------------------------------------------

\* the document Diagnosis.create builds from diagnosisData: schema paths
\* only, String paths with trim: true trimmed, defaults applied
DiagnosisDocument(data) ==
  [ diagnosisId |-> data.diagnosisId,
    patient     |-> data.patient,
    doctor      |-> data.doctor,
    appointment |-> data.appointment,
    symptoms    |-> [i \in 1..Len(data.symptoms) |->
                       [data.symptoms[i] EXCEPT !.symptom = Trim(@)]],
    diagnosis   |-> [data.diagnosis EXCEPT !.primary = Trim(@)],
    malariaAssessment |-> data.malariaAssessment,
    typhoidAssessment |-> data.typhoidAssessment,
    status      |-> "active" ]

LabOutcomeValid(v) == v = Undefined \/ v \in LabOutcomes

\* schema validation, run by save() before the pre('save') hook that would
\* generate a missing diagnosisId
SchemaErrors(doc) ==
  (IF doc.diagnosisId = Undefined THEN {"diagnosisId"} ELSE {})
    \cup (IF \E i \in 1..Len(doc.symptoms) : doc.symptoms[i].symptom = <<>>
            THEN {"symptoms.symptom"} ELSE {})
    \cup (IF \E i \in 1..Len(doc.symptoms) : doc.symptoms[i].severity \notin Severities
            THEN {"symptoms.severity"} ELSE {})
    \cup (IF doc.diagnosis.primary = <<>> THEN {"diagnosis.primary"} ELSE {})
    \cup (IF doc.diagnosis.confidence # <<>>
             /\ (doc.diagnosis.confidence[1] < 0 \/ doc.diagnosis.confidence[1] > 100)
            THEN {"diagnosis.confidence"} ELSE {})
    \cup (IF doc.malariaAssessment.riskLevel \notin {"low", "moderate", "high"}
            THEN {"malariaAssessment.riskLevel"} ELSE {})
    \cup (IF ~ ( /\ LabOutcomeValid(Get(doc.malariaAssessment.testResults, "rapidTest"))
                 /\ LabOutcomeValid(Get(doc.malariaAssessment.testResults, "microscopy")) )
            THEN {"malariaAssessment.testResults"} ELSE {})
    \cup (IF doc.malariaAssessment.species \notin Species \cup {Undefined}
            THEN {"malariaAssessment.species"} ELSE {})
    \cup (IF doc.typhoidAssessment.riskLevel \notin {"low", "moderate", "high"}
            THEN {"typhoidAssessment.riskLevel"} ELSE {})
    \cup (IF ~ ( /\ LabOutcomeValid(Get(doc.typhoidAssessment.testResults, "widalTest"))
                 /\ LabOutcomeValid(Get(doc.typhoidAssessment.testResults, "bloodCulture")) )
            THEN {"typhoidAssessment.testResults"} ELSE {})

\* unique index on diagnosisId
DuplicateKey(store, doc) ==
  \E i \in 1..Len(store) : store[i].diagnosisId = doc.diagnosisId

\* ------------------------------------------------------------------------
\* createDiagnosis (diagnosisController.js)
\* ------------------------------------------------------------------------

CreateMalariaRecommendation(riskLevel) ==
  IF riskLevel = "high"
    THEN "Immediate malaria testing and treatment recommended"
    ELSE IF riskLevel = "moderate"
      THEN "Consider malaria testing"
      ELSE "Low malaria risk"

\* mutant: the 'moderate' text differs from the assessment endpoint's
CreateTyphoidRecommendation_Reworded(riskLevel) ==
  IF riskLevel = "high"
    THEN "Immediate typhoid testing and treatment recommended"
    ELSE IF riskLevel = "moderate"
      THEN "Typhoid testing advised"
      ELSE "Low typhoid risk"

CreateTyphoidRecommendation(riskLevel) ==
  IF riskLevel = "high"
    THEN "Immediate typhoid testing and treatment recommended"
    ELSE IF riskLevel = "moderate"
      THEN "Consider typhoid testing"
      ELSE "Low typhoid risk"

\* mutant: a riskLevel sent in the body wins over the computed one
MergeMalariaAssessment_SentWins(sent, riskLevel) ==
  [ riskLevel   |-> IF Get(sent, "riskLevel") # Undefined
                      THEN Get(sent, "riskLevel") ELSE riskLevel,
    testResults |-> GetObj(sent, "testResults"),
    species     |-> Get(sent, "species") ]

\* { ...req.body.malariaAssessment, riskLevel }
MergeMalariaAssessment(sent, riskLevel) ==
  [ riskLevel   |-> riskLevel,
    testResults |-> GetObj(sent, "testResults"),
    species     |-> Get(sent, "species") ]

\* { ...req.body.typhoidAssessment, riskLevel }
MergeTyphoidAssessment(sent, riskLevel) ==
  [ riskLevel   |-> riskLevel,
    testResults |-> GetObj(sent, "testResults") ]

\* the outcome of createDiagnosis for a request body and a store:
\* the response and the store afterwards
CreateDiagnosisOutcome(b, errors, store) ==
  IF errors # {}
    THEN [res |-> JsonResponse(400, FALSE, "Validation failed", <<>>, <<>>),
          store |-> store]
  ELSE IF b.patient \notin Patients
    THEN [res |-> JsonResponse(404, FALSE, "Patient not found", <<>>, <<>>),
          store |-> store]
  ELSE IF b.appointment \notin Appointments
    THEN [res |-> JsonResponse(404, FALSE, "Appointment not found", <<>>, <<>>),
          store |-> store]
  ELSE IF ThrowsTypeError(b.symptoms.items)
    THEN [res |-> NextError, store |-> store]
  ELSE
    LET symptoms == b.symptoms.items
        malariaAssessment ==
          assessMalariaRisk(symptoms, GetObj(b.malariaAssessment, "testResults"))
        typhoidAssessment ==
          assessTyphoidRisk(symptoms, GetObj(b.typhoidAssessment, "testResults"))
        diagnosisData ==
          [ diagnosisId |-> b.diagnosisId,
            patient     |-> b.patient,
            appointment |-> b.appointment,
            symptoms    |-> symptoms,
            diagnosis   |-> b.diagnosis,
            doctor      |-> RequestUser.id,
            malariaAssessment |->
              MergeMalariaAssessment(b.malariaAssessment, malariaAssessment.riskLevel),
            typhoidAssessment |->
              MergeTyphoidAssessment(b.typhoidAssessment, typhoidAssessment.riskLevel) ]
        diagnosis == DiagnosisDocument(diagnosisData)
    IN
    IF SchemaErrors(diagnosis) # {}
      THEN [res |-> [NextError EXCEPT !.error = "ValidationError"], store |-> store]
    ELSE IF DuplicateKey(store, diagnosis)
      THEN [res |-> [NextError EXCEPT !.error = "MongoServerError"], store |-> store]
      ELSE
        [ res |->
            JsonResponse(201, TRUE, Undefined, <<diagnosis>>,
              << [ malaria |->
                     [ riskLevel |-> malariaAssessment.riskLevel,
                       score     |-> malariaAssessment.score,
                       recommendation |->
                         CreateMalariaRecommendation(malariaAssessment.riskLevel) ],
                   typhoid |->
                     [ riskLevel |-> typhoidAssessment.riskLevel,
                       score     |-> typhoidAssessment.score,
                       recommendation |->
                         CreateTyphoidRecommendation(typhoidAssessment.riskLevel) ] ] >>),
          store |-> Append(store, diagnosis) ]

\* ------------------------------------------------------------------------
\* Diagnosis update: request bodies, updateDiagnosisValidation
\* (routes/diagnosis.js) and updateDiagnosis (diagnosisController.js)
\* ------------------------------------------------------------------------

UpdateBody(symptoms, diagnosis, malariaAssessment) ==
  [symptoms |-> symptoms, diagnosis |-> diagnosis,
   malariaAssessment |-> malariaAssessment]

SymptomsArray(items) == [kind |-> "array", items |-> items]

AbsentSymptoms == [kind |-> "absent", items |-> <<>>]

feverMild == [symptom |-> fever, severity |-> "mild", duration |-> Undefined]

chillsSevere ==
  [symptom |-> paddedChills, severity |-> "severe", duration |-> "2 days"]

unnamedMild ==
  [symptom |-> UndefinedName, severity |-> "mild", duration |-> Undefined]

UpdateBodies ==
  { UpdateBody(SymptomsArray(<<feverMild>>), <<>>, <<>>),
    UpdateBody(SymptomsArray(<<unnamedMild>>), <<>>, <<>>),
    UpdateBody(AbsentSymptoms, <<>>,
      <<[riskLevel |-> "high", testResults |-> <<>>, species |-> Undefined]>>),
    UpdateBody(AbsentSymptoms,
      <<[primary |-> shortText, confidence |-> <<>>]>>, <<>>) }

\* the update requests, as req.params.id and body; an id is the position
\* of a stored diagnosis, and no diagnosis has id 2
UpdateRequests ==
  { <<1, b>> : b \in UpdateBodies }
    \cup { <<2, UpdateBody(SymptomsArray(<<feverMild>>), <<>>, <<>>)>> }

\* body('symptoms').optional().isArray({ min: 1 })
OptionalSymptomsArrayErrors(symptoms) ==
  IF symptoms.kind = "absent" THEN {} ELSE SymptomsArrayErrors(symptoms)

\* body('symptoms.*.symptom').optional().isLength({ min: 2, max: 100 })
OptionalSymptomLengthErrors(symptoms) ==
  { ValidationError("symptoms.*.symptom", i) :
      i \in { j \in 1..Len(symptoms.items) :
                /\ symptoms.items[j].symptom # UndefinedName
                /\ \/ Len(symptoms.items[j].symptom) < 2
                   \/ Len(symptoms.items[j].symptom) > 100 } }

\* body('symptoms.*.symptom').optional() ... .trim(): an undefined name is
\* skipped by the whole chain, sanitizer included
OptionalTrimSymptoms(symptoms) ==
  [symptoms EXCEPT
     !.items = [i \in 1..Len(symptoms.items) |->
                  IF symptoms.items[i].symptom = UndefinedName
                    THEN symptoms.items[i]
                    ELSE [symptoms.items[i] EXCEPT !.symptom = Trim(@)]]]

\* body('diagnosis.primary').optional().isLength({ min: 3, max: 200 })
OptionalPrimaryErrors(diagnosis) ==
  IF diagnosis = <<>> \/ diagnosis[1].primary = UndefinedName
    THEN {}
    ELSE PrimaryErrors(diagnosis[1].primary)

\* body('diagnosis.confidence').optional().isFloat({ min: 0, max: 100 })
OptionalConfidenceErrors(diagnosis) ==
  IF diagnosis = <<>> THEN {} ELSE ConfidenceErrors(diagnosis[1].confidence)

updateDiagnosisValidation(b) ==
  OptionalSymptomsArrayErrors(b.symptoms)
    \cup OptionalSymptomLengthErrors(b.symptoms)
    \cup OptionalSeverityErrors(b.symptoms)
    \cup OptionalPrimaryErrors(b.diagnosis)
    \cup OptionalConfidenceErrors(b.diagnosis)

\* the sanitizers of updateDiagnosisValidation, written back to req.body
UpdateSanitized(b) ==
  [b EXCEPT !.symptoms = OptionalTrimSymptoms(@),
            !.diagnosis = IF @ = <<>> \/ @[1].primary = UndefinedName
                            THEN @
                            ELSE <<[@[1] EXCEPT !.primary = Trim(@)]>>]

\* runValidators: the schema's validators on the paths the update sets
UpdateValidatorErrors(b) ==
  (IF \E i \in 1..Len(b.symptoms.items) :
        \/ b.symptoms.items[i].symptom = UndefinedName
        \/ Trim(b.symptoms.items[i].symptom) = <<>>
      THEN {"symptoms.symptom"} ELSE {})
    \cup (IF \E i \in 1..Len(b.symptoms.items) :
               b.symptoms.items[i].severity \notin Severities
            THEN {"symptoms.severity"} ELSE {})
    \cup (IF b.diagnosis # <<>>
             /\ (b.diagnosis[1].primary = UndefinedName
                   \/ Trim(b.diagnosis[1].primary) = <<>>)
            THEN {"diagnosis.primary"} ELSE {})
    \cup (IF b.malariaAssessment # <<>>
             /\ b.malariaAssessment[1].riskLevel
                  \notin {"low", "moderate", "high", Undefined}
            THEN {"malariaAssessment.riskLevel"} ELSE {})

\* mutant: an update that carries symptoms scores them again
UpdatedDiagnosis_Rescoring(doc, b) ==
  [doc EXCEPT
     !.symptoms = IF b.symptoms.kind = "array"
                    THEN [i \in 1..Len(b.symptoms.items) |->
                            [b.symptoms.items[i] EXCEPT !.symptom = Trim(@)]]
                    ELSE @,
     !.diagnosis = IF b.diagnosis # <<>>
                     THEN [b.diagnosis[1] EXCEPT !.primary = Trim(@)]
                     ELSE @,
     !.malariaAssessment =
        IF b.symptoms.kind = "array"
          THEN [@ EXCEPT !.riskLevel =
                  assessMalariaRisk(b.symptoms.items, doc.malariaAssessment.testResults).riskLevel]
          ELSE IF b.malariaAssessment # <<>> THEN b.malariaAssessment[1] ELSE @,
     !.typhoidAssessment.riskLevel =
        IF b.symptoms.kind = "array"
          THEN assessTyphoidRisk(b.symptoms.items, doc.typhoidAssessment.testResults).riskLevel
          ELSE @]

\* the stored document after findByIdAndUpdate(id, req.body): every
\* top-level key of the body replaces the stored value of that path
UpdatedDiagnosis(doc, b) ==
  [doc EXCEPT
     !.symptoms = IF b.symptoms.kind = "array"
                    THEN [i \in 1..Len(b.symptoms.items) |->
                            [b.symptoms.items[i] EXCEPT !.symptom = Trim(@)]]
                    ELSE @,
     !.diagnosis = IF b.diagnosis # <<>>
                     THEN [b.diagnosis[1] EXCEPT !.primary = Trim(@)]
                     ELSE @,
     !.malariaAssessment = IF b.malariaAssessment # <<>>
                             THEN b.malariaAssessment[1]
                             ELSE @]

\* the outcome of updateDiagnosis for a path id, a request body and a
\* store: the response and the store afterwards
UpdateDiagnosisOutcome(id, b, errors, store) ==
  IF errors # {}
    THEN [res |-> JsonResponse(400, FALSE, "Validation failed", <<>>, <<>>),
          store |-> store]
  ELSE IF UpdateValidatorErrors(b) # {}
    THEN [res |-> [NextError EXCEPT !.error = "ValidationError"], store |-> store]
  ELSE IF id \notin 1..Len(store)
    THEN [res |-> JsonResponse(404, FALSE, "Diagnosis not found", <<>>, <<>>),
          store |-> store]
  ELSE
    LET diagnosis == UpdatedDiagnosis(store[id], b)
    IN  [res |-> JsonResponse(200, TRUE, Undefined, <<diagnosis>>, <<>>),
         store |-> [store EXCEPT ![id] = diagnosis]]

\* ------------------------------------------------------------------------
\* State
\* ------------------------------------------------------------------------

VARIABLES
  phase,             \* position of the request in the route's pipeline
  endpoint,          \* route of the request in flight
  submitted,         \* request body as the client sent it
  body,              \* req.body, as the sanitizers have left it
  validationErrors,  \* errors the validation chain recorded on req
  res,               \* response
  diagnoses,         \* the Diagnosis collection
  inflight,          \* the assessment calls the server is working on
  writer,            \* the create or update request the server is working on
  answers,           \* the assessment calls answered so far
  reply,             \* the response to the last create or update request
  booking,           \* the appointment request the server is working on
  appointments,      \* the Appointment collection
  gate,              \* the request passing the auth middleware
  reading,           \* the read request of a patient
  account,           \* the user-management request the server is working on
  users,             \* the User collection
  dispensing,        \* the prescription requests the server is working on
  prescriptions,     \* the Prescription collection
  client             \* the browser's httpClient and the request it is making

\* the single request of the diagnosis routes
requestVars == <<phase, endpoint, submitted, body, validationErrors, res>>

\* the concurrent requests of the diagnosis routes
sessionVars == <<inflight, writer, answers, reply>>

appointmentVars == <<booking, appointments>>

authVars == <<gate>>

recordVars == <<reading>>

userVars == <<account, users>>

pharmacyVars == <<dispensing, prescriptions>>

clientVars == <<client>>

\* the variables the diagnosis routes leave alone
nonDiagnosisVars ==
  <<appointmentVars, authVars, recordVars, userVars, pharmacyVars, clientVars>>

\* the variables of the diagnosis routes
diagnosisVars == <<requestVars, diagnoses, sessionVars>>

\* the variables the single-request pipeline leaves alone
otherVars == <<sessionVars, nonDiagnosisVars>>

vars == <<phase, endpoint, submitted, body, validationErrors, res, diagnoses,
          inflight, writer, answers, reply, booking, appointments, gate,
          reading, account, users, dispensing, prescriptions, client>>

NoBody == [symptoms |-> [kind |-> "absent", items |-> <<>>], testResults |-> <<>>]

Slots == 1..MaxInFlight

\* a connection without a request
IdleRequest ==
  [phase |-> "idle", endpoint |-> "none", id |-> 0, submitted |-> NoBody,
   body |-> NoBody, validationErrors |-> {}]

\* the diagnosis routes without a request
DiagnosisIdle ==
  /\ phase = "idle"
  /\ endpoint = "none"
  /\ submitted = NoBody
  /\ body = NoBody
  /\ validationErrors = {}
  /\ res = NoResponse
  /\ inflight = [r \in Slots |-> IdleRequest]
  /\ writer = IdleRequest
  /\ answers = {}
  /\ reply = NoResponse

\* the diagnosis routes at server start, on an empty Diagnosis collection
DiagnosisInit ==
  /\ DiagnosisIdle
  /\ diagnoses = <<>>

\* no request in progress
Idle == [phase |-> "idle"]

Init ==
  /\ DiagnosisInit
  /\ booking = Idle
  /\ appointments = <<>>
  /\ gate = Idle
  /\ reading = Idle
  /\ account = Idle
  /\ users = <<>>
  /\ dispensing = Idle
  /\ prescriptions = <<>>
  /\ client = Idle

\* POST /api/diagnosis/expert-system/assess arrives
PostAssess ==
  /\ phase = "idle"
  /\ \E b \in AssessBodies :
       /\ submitted' = b
       /\ body' = b
  /\ phase' = "received"
  /\ endpoint' = "assess"
  /\ UNCHANGED <<validationErrors, res, diagnoses>>
  /\ UNCHANGED otherVars

\* the route's validation middleware; it records errors and sanitizes,
\* and always passes the request on
ExpertSystemValidation ==
  /\ phase = "received"
  /\ endpoint = "assess"
  /\ validationErrors' = expertSystemValidation(body)
  /\ body' = [body EXCEPT !.symptoms = TrimSymptoms(@)]
  /\ phase' = "validated"
  /\ UNCHANGED <<endpoint, submitted, res, diagnoses>>
  /\ UNCHANGED otherVars

GetExpertSystemAssessment ==
  /\ phase = "validated"
  /\ endpoint = "assess"
  /\ res' = ExpertSystemResponse(body)
  /\ phase' = "responded"
  /\ UNCHANGED <<endpoint, submitted, body, validationErrors, diagnoses>>
  /\ UNCHANGED otherVars

\* POST /api/diagnosis arrives
PostDiagnosis ==
  /\ phase = "idle"
  /\ \E b \in CreateBodies :
       /\ submitted' = b
       /\ body' = b
  /\ phase' = "received"
  /\ endpoint' = "create"
  /\ UNCHANGED <<validationErrors, res, diagnoses>>
  /\ UNCHANGED otherVars

CreateDiagnosisValidation ==
  /\ phase = "received"
  /\ endpoint = "create"
  /\ validationErrors' = createDiagnosisValidation(body)
  /\ body' = [body EXCEPT !.symptoms = TrimSymptoms(@),
                          !.diagnosis.primary = Trim(ToStringValue(@))]
  /\ phase' = "validated"
  /\ UNCHANGED <<endpoint, submitted, res, diagnoses>>
  /\ UNCHANGED otherVars

CreateDiagnosis ==
  /\ phase = "validated"
  /\ endpoint = "create"
  /\ LET outcome == CreateDiagnosisOutcome(body, validationErrors, diagnoses)
     IN  /\ res' = outcome.res
         /\ diagnoses' = outcome.store
  /\ phase' = "responded"
  /\ UNCHANGED <<endpoint, submitted, body, validationErrors>>
  /\ UNCHANGED otherVars

Next ==
  \/ PostAssess
  \/ ExpertSystemValidation
  \/ GetExpertSystemAssessment
  \/ PostDiagnosis
  \/ CreateDiagnosisValidation
  \/ CreateDiagnosis

Spec == Init /\ [][Next]_vars

\* ------------------------------------------------------------------------
\* The diagnosis routes under concurrent requests.  Every await of a
\* handler and every middleware boundary is a point where the event loop
\* may run another request; the handlers themselves run to their next
\* await without interruption.  Up to MaxInFlight assessment calls are in
\* progress next to one create or update request.
\* ------------------------------------------------------------------------

SessionAssessBodies ==
  { [symptoms |-> SymptomsArray(<<feverMild, chillsSevere, feverMild>>),
     testResults |-> TestResults(<<>>, TyphoidTests("positive", Undefined))],
    [symptoms |-> AbsentSymptoms, testResults |-> <<>>] }

SessionEnvelope == Envelope("p1", "a1", "D000001", flu, <<>>)

SessionCreateBodies ==
  { CreateBody(SessionEnvelope,
      SymptomsArray(<<feverMild, feverMild, feverMild>>), <<>>, <<>>),
    CreateBody(SessionEnvelope, SymptomsArray(<<chillsSevere>>), <<>>,
      <<[riskLevel |-> Undefined,
         testResults |-> TyphoidTests("not-done", "positive")]>>) }

\* mutant: the assessment is saved with the diagnoses
AssessmentOutcome_Persisting(b, store) ==
  [res |-> ExpertSystemResponse(b),
   store |-> IF ExpertSystemResponse(b).status = 200
               THEN Append(store, ExpertSystemResponse(b).data[1])
               ELSE store]

\* the outcome of getExpertSystemAssessment for a request body and a store:
\* the response and the store afterwards
AssessmentOutcome(b, store) ==
  [res |-> ExpertSystemResponse(b), store |-> store]

Request(route, id, b) ==
  [phase |-> "received", endpoint |-> route, id |-> id, submitted |-> b,
   body |-> b, validationErrors |-> {}]

SessionPostAssess(r) ==
  /\ inflight[r].phase = "idle"
  /\ \E b \in SessionAssessBodies :
       inflight' = [inflight EXCEPT ![r] = Request("assess", 0, b)]
  /\ UNCHANGED requestVars
  /\ UNCHANGED nonDiagnosisVars
  /\ UNCHANGED <<diagnoses, writer, answers, reply>>

SessionExpertSystemValidation(r) ==
  /\ inflight[r].phase = "received"
  /\ inflight' =
       [inflight EXCEPT
          ![r].validationErrors = expertSystemValidation(inflight[r].body),
          ![r].body = [@ EXCEPT !.symptoms = TrimSymptoms(@)],
          ![r].phase = "validated"]
  /\ UNCHANGED requestVars
  /\ UNCHANGED nonDiagnosisVars
  /\ UNCHANGED <<diagnoses, writer, answers, reply>>

SessionGetExpertSystemAssessment(r) ==
  /\ inflight[r].phase = "validated"
  /\ LET outcome == AssessmentOutcome(inflight[r].body, diagnoses)
     IN  /\ answers' = answers \cup
                         { [submitted |-> inflight[r].submitted,
                            res |-> outcome.res] }
         /\ diagnoses' = outcome.store
  /\ inflight' = [inflight EXCEPT ![r] = IdleRequest]
  /\ UNCHANGED requestVars
  /\ UNCHANGED nonDiagnosisVars
  /\ UNCHANGED <<writer, reply>>

SessionPostDiagnosis ==
  /\ writer.phase = "idle"
  /\ \E b \in SessionCreateBodies : writer' = Request("create", 0, b)
  /\ UNCHANGED requestVars
  /\ UNCHANGED nonDiagnosisVars
  /\ UNCHANGED <<diagnoses, inflight, answers, reply>>

SessionCreateDiagnosisValidation ==
  /\ writer.phase = "received"
  /\ writer.endpoint = "create"
  /\ writer' =
       [writer EXCEPT
          !.validationErrors = createDiagnosisValidation(writer.body),
          !.body = [@ EXCEPT !.symptoms = TrimSymptoms(@),
                             !.diagnosis.primary = Trim(ToStringValue(@))],
          !.phase = "validated"]
  /\ UNCHANGED requestVars
  /\ UNCHANGED nonDiagnosisVars
  /\ UNCHANGED <<diagnoses, inflight, answers, reply>>

SessionCreateDiagnosis ==
  /\ writer.phase = "validated"
  /\ writer.endpoint = "create"
  /\ LET outcome ==
           CreateDiagnosisOutcome(writer.body, writer.validationErrors, diagnoses)
     IN  /\ reply' = outcome.res
         /\ diagnoses' = outcome.store
  /\ writer' = IdleRequest
  /\ UNCHANGED requestVars
  /\ UNCHANGED nonDiagnosisVars
  /\ UNCHANGED <<inflight, answers>>

\* PUT /api/diagnosis/:id arrives
SessionPutDiagnosis ==
  /\ writer.phase = "idle"
  /\ \E u \in UpdateRequests : writer' = Request("update", u[1], u[2])
  /\ UNCHANGED requestVars
  /\ UNCHANGED nonDiagnosisVars
  /\ UNCHANGED <<diagnoses, inflight, answers, reply>>

SessionUpdateDiagnosisValidation ==
  /\ writer.phase = "received"
  /\ writer.endpoint = "update"
  /\ writer' =
       [writer EXCEPT
          !.validationErrors = updateDiagnosisValidation(writer.body),
          !.body = UpdateSanitized(@),
          !.phase = "validated"]
  /\ UNCHANGED requestVars
  /\ UNCHANGED nonDiagnosisVars
  /\ UNCHANGED <<diagnoses, inflight, answers, reply>>

SessionUpdateDiagnosis ==
  /\ writer.phase = "validated"
  /\ writer.endpoint = "update"
  /\ LET outcome ==
           UpdateDiagnosisOutcome(writer.id, writer.body,
                                  writer.validationErrors, diagnoses)
     IN  /\ reply' = outcome.res
         /\ diagnoses' = outcome.store
  /\ writer' = IdleRequest
  /\ UNCHANGED requestVars
  /\ UNCHANGED nonDiagnosisVars
  /\ UNCHANGED <<inflight, answers>>

SessionNext ==
  \/ \E r \in Slots : SessionPostAssess(r)
  \/ \E r \in Slots : SessionExpertSystemValidation(r)
  \/ \E r \in Slots : SessionGetExpertSystemAssessment(r)
  \/ SessionPostDiagnosis
  \/ SessionCreateDiagnosisValidation
  \/ SessionCreateDiagnosis
  \/ SessionPutDiagnosis
  \/ SessionUpdateDiagnosisValidation
  \/ SessionUpdateDiagnosis

SessionSpec == Init /\ [][SessionNext]_vars

\* ------------------------------------------------------------------------
\* Properties of the expert system
\* ------------------------------------------------------------------------

\* the catalogs as sets
MalariaCatalog == {malariaSymptoms[i] : i \in 1..Len(malariaSymptoms)}

TyphoidCatalog == {typhoidSymptoms[i] : i \in 1..Len(typhoidSymptoms)}

\* the request in flight got its assessment
Assessed ==
  /\ phase = "responded"
  /\ res.kind = "json"
  /\ \/ endpoint = "assess" /\ res.status = 200
     \/ endpoint = "create" /\ res.status = 201

\* the symptom report the handler scored
Report == body.symptoms.items

\* the lab results of the request, per disease
MalariaLabs ==
  IF endpoint = "assess"
    THEN GetObj(body.testResults, "malaria")
    ELSE GetObj(body.malariaAssessment, "testResults")

TyphoidLabs ==
  IF endpoint = "assess"
    THEN GetObj(body.testResults, "typhoid")
    ELSE GetObj(body.typhoidAssessment, "testResults")

\* the per-disease results of the response
MalariaResult ==
  IF endpoint = "assess"
    THEN res.data[1].malaria
    ELSE res.expertSystemRecommendations[1].malaria

TyphoidResult ==
  IF endpoint = "assess"
    THEN res.data[1].typhoid
    ELSE res.expertSystemRecommendations[1].typhoid

\* number of entries of a report whose lowercased name is in a catalog
MatchCount(report, catalog) ==
  Cardinality({i \in 1..Len(report) : ToLowerCase(report[i].symptom) \in catalog})

MalariaPositive(labs) ==
  Get(labs, "rapidTest") = "positive" \/ Get(labs, "microscopy") = "positive"

TyphoidPositive(labs) ==
  Get(labs, "widalTest") = "positive" \/ Get(labs, "bloodCulture") = "positive"

\* the tier the score alone gives
ScoreTier(score) ==
  IF score >= 5 THEN "high" ELSE IF score >= 3 THEN "moderate" ELSE "low"

\* C1 (as amended): the score of each disease is the number of report
\* entries whose lowercased name is in the disease's catalog, every
\* occurrence counted; a report without any catalog match scores 0 for both
\* diseases, with tier 'low' for each disease that has no positive
\* confirmatory test.
C1_ScoreIsMatchCount ==
  Assessed =>
    /\ MalariaResult.score = MatchCount(Report, MalariaCatalog)
    /\ TyphoidResult.score = MatchCount(Report, TyphoidCatalog)
    /\ (MatchCount(Report, MalariaCatalog) = 0 /\ MatchCount(Report, TyphoidCatalog) = 0)
         => /\ MalariaResult.score = 0
            /\ TyphoidResult.score = 0
            /\ ~ MalariaPositive(MalariaLabs) => MalariaResult.riskLevel = "low"
            /\ ~ TyphoidPositive(TyphoidLabs) => TyphoidResult.riskLevel = "low"

\* C1 as stated, for the requests the route's validators find no fault
\* with: a report without any catalog match has tier 'low' for both
\* diseases, whatever the lab results.
C1_Original ==
  (Assessed /\ validationErrors = {}) =>
    /\ MalariaResult.score = MatchCount(Report, MalariaCatalog)
    /\ TyphoidResult.score = MatchCount(Report, TyphoidCatalog)
    /\ (MatchCount(Report, MalariaCatalog) = 0 /\ MatchCount(Report, TyphoidCatalog) = 0)
         => /\ MalariaResult.score = 0
            /\ TyphoidResult.score = 0
            /\ MalariaResult.riskLevel = "low"
            /\ TyphoidResult.riskLevel = "low"

\* a repeated name, a name in capitals and a name of both catalogs were
\* scored: fever twice and RASH give malaria 2 and typhoid 3
C1_Witness ==
  /\ Assessed
  /\ \E i, j \in 1..Len(Report) :
       i # j /\ Report[i].symptom = fever /\ Report[j].symptom = fever
  /\ \E k \in 1..Len(Report) : Report[k].symptom = upperRash
  /\ MalariaResult.score = 2
  /\ TyphoidResult.score = 3

\* C2: without a positive confirmatory test the tier follows from the score
\* alone (>= 5 high, 3..4 moderate, < 3 low), for every lab-result object
\* of the disease that holds no 'positive'; the tier is one of low,
\* moderate, high.
C2_TierFromScore ==
  Assessed =>
    /\ MalariaResult.riskLevel \in {"low", "moderate", "high"}
    /\ TyphoidResult.riskLevel \in {"low", "moderate", "high"}
    /\ ~ MalariaPositive(MalariaLabs)
         => MalariaResult.riskLevel = ScoreTier(MalariaResult.score)
    /\ ~ TyphoidPositive(TyphoidLabs)
         => TyphoidResult.riskLevel = ScoreTier(TyphoidResult.score)
    /\ \A labs \in AllMalariaTests :
         ~ MalariaPositive(labs)
           => assessMalariaRisk(Report, labs).riskLevel
                = ScoreTier(MatchCount(Report, MalariaCatalog))
    /\ \A labs \in AllTyphoidTests :
         ~ TyphoidPositive(labs)
           => assessTyphoidRisk(Report, labs).riskLevel
                = ScoreTier(MatchCount(Report, TyphoidCatalog))

\* a typhoid score of exactly 3 with tests done and not positive
C2_Witness ==
  /\ Assessed
  /\ TyphoidLabs # <<>>
  /\ ~ TyphoidPositive(TyphoidLabs)
  /\ TyphoidResult.score = 3
  /\ TyphoidResult.riskLevel = "moderate"

\* C3: a positive confirmatory test of a disease gives that disease tier
\* 'high' whatever the report, and turning the other test of the disease
\* positive as well leaves the result as it is.
C3_PositiveTestForcesHigh ==
  Assessed =>
    /\ MalariaPositive(MalariaLabs) =>
         /\ MalariaResult.riskLevel = "high"
         /\ \A labs \in {MalariaTests("positive", "positive")} :
              /\ assessMalariaRisk(Report, labs).riskLevel = MalariaResult.riskLevel
              /\ assessMalariaRisk(Report, labs).score = MalariaResult.score
    /\ TyphoidPositive(TyphoidLabs) =>
         /\ TyphoidResult.riskLevel = "high"
         /\ \A labs \in {TyphoidTests("positive", "positive")} :
              /\ assessTyphoidRisk(Report, labs).riskLevel = TyphoidResult.riskLevel
              /\ assessTyphoidRisk(Report, labs).score = TyphoidResult.score

\* microscopy alone is positive and the report matches nothing
C3_Witness ==
  /\ Assessed
  /\ Get(MalariaLabs, "microscopy") = "positive"
  /\ Get(MalariaLabs, "rapidTest") # "positive"
  /\ MalariaResult.score = 0
  /\ MalariaResult.riskLevel = "high"

\* the names of a report as the client sent them
SubmittedNames ==
  [i \in 1..Len(submitted.symptoms.items) |-> submitted.symptoms.items[i].symptom]

\* the submitted names with surrounding whitespace stripped, a missing name
\* read as the empty string
TrimmedSubmittedNames ==
  [i \in 1..Len(SubmittedNames) |-> Trim(ToStringValue(SubmittedNames[i]))]

InMalariaCatalog(name) == ToLowerCase(name) \in MalariaCatalog

InTyphoidCatalog(name) == ToLowerCase(name) \in TyphoidCatalog

\* the standalone assessment answered with a result
AssessAnswered ==
  phase = "responded" /\ endpoint = "assess" /\ res.kind = "json" /\ res.status = 200

\* C4 (as amended): matchingSymptoms of each disease is the subsequence of
\* the submitted names, whitespace-trimmed by the route's sanitizer and
\* otherwise as submitted (case, order and repeats kept), whose lowercased
\* form is in the disease's catalog; its length is the disease's score.
C4_MatchingSymptomsTrimmed ==
  AssessAnswered =>
    /\ res.data[1].malaria.matchingSymptoms
         = SelectSeq(TrimmedSubmittedNames, InMalariaCatalog)
    /\ res.data[1].typhoid.matchingSymptoms
         = SelectSeq(TrimmedSubmittedNames, InTyphoidCatalog)
    /\ Len(res.data[1].malaria.matchingSymptoms) = res.data[1].malaria.score
    /\ Len(res.data[1].typhoid.matchingSymptoms) = res.data[1].typhoid.score

\* C4 as stated: matchingSymptoms is the subsequence of the names exactly as
\* submitted whose lowercased form is in the catalog.
C4_Original ==
  AssessAnswered =>
    /\ res.data[1].malaria.matchingSymptoms
         = SelectSeq(SubmittedNames, InMalariaCatalog)
    /\ res.data[1].typhoid.matchingSymptoms
         = SelectSeq(SubmittedNames, InTyphoidCatalog)
    /\ Len(res.data[1].malaria.matchingSymptoms) = res.data[1].malaria.score
    /\ Len(res.data[1].typhoid.matchingSymptoms) = res.data[1].typhoid.score

\* ' Chills' was submitted between two 'fever' and comes back as 'Chills'
C4_Witness ==
  /\ AssessAnswered
  /\ \E i \in 1..Len(SubmittedNames) : SubmittedNames[i] = paddedChills
  /\ res.data[1].malaria.matchingSymptoms
       = <<fever, <<"C","h","i","l","l","s">>, fever>>
  /\ res.data[1].typhoid.matchingSymptoms = <<fever, fever>>

\* the recommendation texts
RecommendationTable ==
  [ malaria |->
      [ high     |-> "Immediate malaria testing and treatment recommended",
        moderate |-> "Consider malaria testing",
        low      |-> "Low malaria risk" ],
    typhoid |->
      [ high     |-> "Immediate typhoid testing and treatment recommended",
        moderate |-> "Consider typhoid testing",
        low      |-> "Low typhoid risk" ] ]

\* C5: the recommendation of a disease is the table's text for the
\* disease's tier, in the response of the standalone assessment and in
\* expertSystemRecommendations of createDiagnosis alike.
C5_RecommendationByTier ==
  Assessed =>
    /\ MalariaResult.recommendation
         = RecommendationTable.malaria[MalariaResult.riskLevel]
    /\ TyphoidResult.recommendation
         = RecommendationTable.typhoid[TyphoidResult.riskLevel]

\* a created diagnosis with malaria 'high' and typhoid 'moderate'
C5_Witness ==
  /\ Assessed
  /\ endpoint = "create"
  /\ MalariaResult.riskLevel = "high"
  /\ TyphoidResult.riskLevel = "moderate"
  /\ TyphoidResult.recommendation = "Consider typhoid testing"

\* C6: a standalone assessment request whose symptoms field is absent, not
\* an array or an empty array is answered 400 without data for either
\* disease.
C6_MissingSymptomsRejected ==
  ( /\ phase = "responded"
    /\ endpoint = "assess"
    /\ \/ submitted.symptoms.kind # "array"
       \/ Len(submitted.symptoms.items) = 0 )
    => /\ res.kind = "json"
       /\ res.status = 400
       /\ res.success = FALSE
       /\ res.data = <<>>

\* an empty array was rejected
C6_Witness ==
  /\ phase = "responded"
  /\ endpoint = "assess"
  /\ submitted.symptoms.kind = "array"
  /\ submitted.symptoms.items = <<>>
  /\ res.status = 400
  /\ res.error = "Symptoms array is required"

\* C7: a standalone assessment request with an entry whose severity is
\* not mild, moderate or severe is answered 400 without data.
C7_InvalidSeverityRejected ==
  ( /\ phase = "responded"
    /\ endpoint = "assess"
    /\ \E i \in 1..Len(submitted.symptoms.items) :
         /\ submitted.symptoms.items[i].severity # Undefined
         /\ submitted.symptoms.items[i].severity \notin Severities )
    => /\ res.kind = "json"
       /\ res.status = 400
       /\ res.data = <<>>

\* C8: the standalone assessment never hands an error to the error handler,
\* and a request with an entry whose name is missing or empty is answered
\* 400.
C8_OnlyValidationFailures ==
  (phase = "responded" /\ endpoint = "assess")
    => /\ res.kind = "json"
       /\ ( \E i \in 1..Len(submitted.symptoms.items) :
              \/ submitted.symptoms.items[i].symptom = UndefinedName
              \/ submitted.symptoms.items[i].symptom = emptyName )
            => res.status = 400 /\ res.data = <<>>

\* a request body with the typhoid (malaria) lab results replaced
WithTyphoidLabs(b, labs) ==
  IF endpoint = "assess"
    THEN [b EXCEPT !.testResults = TestResults(GetObj(b.testResults, "malaria"), labs)]
    ELSE [b EXCEPT !.typhoidAssessment =
            <<[riskLevel |-> Get(b.typhoidAssessment, "riskLevel"), testResults |-> labs]>>]

WithMalariaLabs(b, labs) ==
  IF endpoint = "assess"
    THEN [b EXCEPT !.testResults = TestResults(labs, GetObj(b.testResults, "typhoid"))]
    ELSE [b EXCEPT !.malariaAssessment =
            <<[riskLevel |-> Get(b.malariaAssessment, "riskLevel"), testResults |-> labs,
               species |-> Get(b.malariaAssessment, "species")]>>]

\* the response the handler of the request in flight gives to a body
ResponseTo(b) ==
  IF endpoint = "assess"
    THEN ExpertSystemResponse(b)
    ELSE CreateDiagnosisOutcome(b, validationErrors, diagnoses).res

ResultsOf(response) ==
  IF endpoint = "assess" THEN response.data ELSE response.expertSystemRecommendations

\* C9: when a handler answers with an assessment, the same request with any
\* other typhoid lab results gets the same malaria result, and the same
\* request with any other malaria lab results gets the same typhoid result,
\* for the standalone assessment and for createDiagnosis.
C9_DiseasesIndependent ==
  [][ (phase = "validated" /\ Assessed')
        => /\ \A labs \in AllTyphoidTests :
                LET other == ResponseTo(WithTyphoidLabs(body, labs))
                IN  /\ other.status = res'.status
                    /\ ResultsOf(other)[1].malaria = ResultsOf(res')[1].malaria
           /\ \A labs \in AllMalariaTests :
                LET other == ResponseTo(WithMalariaLabs(body, labs))
                IN  /\ other.status = res'.status
                    /\ ResultsOf(other)[1].typhoid = ResultsOf(res')[1].typhoid
    ]_vars

\* typhoid was found 'high' by a positive test while malaria is 'low'
C9_Witness ==
  /\ Assessed
  /\ TyphoidPositive(TyphoidLabs)
  /\ TyphoidResult.score < 5
  /\ TyphoidResult.riskLevel = "high"
  /\ MalariaResult.riskLevel = "low"

\* a report with the severity and duration of every entry replaced
WithSeverity(report, severity, duration) ==
  [i \in 1..Len(report) |->
     [report[i] EXCEPT !.severity = severity, !.duration = duration]]

ScoreAndTier(result) == [riskLevel |-> result.riskLevel, score |-> result.score]

\* C10: the score and the tier of both diseases are those of the report
\* with any other severity and duration, in every entry or in one entry.
C10_SeverityIgnored ==
  Assessed =>
    /\ \A severity \in {"mild", "severe", Undefined}, duration \in {Undefined, "2 days"} :
         /\ assessMalariaRisk(WithSeverity(Report, severity, duration), MalariaLabs)
              = ScoreAndTier(MalariaResult)
         /\ assessTyphoidRisk(WithSeverity(Report, severity, duration), TyphoidLabs)
              = ScoreAndTier(TyphoidResult)
    /\ \A i \in 1..Len(Report) :
         LET other == [Report EXCEPT ![i].severity = "moderate", ![i].duration = "1 week"]
         IN  /\ assessMalariaRisk(other, MalariaLabs) = ScoreAndTier(MalariaResult)
             /\ assessTyphoidRisk(other, TyphoidLabs) = ScoreAndTier(TyphoidResult)

\* a scored report with a mild and a severe entry and a duration
C10_Witness ==
  /\ Assessed
  /\ \E i, j \in 1..Len(Report) :
       /\ Report[i].severity = "mild"
       /\ Report[j].severity = "severe"
       /\ Report[j].duration = "2 days"
  /\ MalariaResult.score >= 2
  /\ TyphoidResult.score >= 1

\* the order of the tiers: low < moderate < high
TierRank(riskLevel) ==
  IF riskLevel = "high" THEN 2 ELSE IF riskLevel = "moderate" THEN 1 ELSE 0

\* the entries a report can grow by, as a handler receives them
AppendableEntries ==
  { [e EXCEPT !.symptom = Trim(ToStringValue(@))] : e \in AssessEntries }

\* lab results with one more test reported positive
MalariaLabsRaised(labs) ==
  { MalariaTests("positive", Get(labs, "microscopy")),
    MalariaTests(Get(labs, "rapidTest"), "positive") }

TyphoidLabsRaised(labs) ==
  { TyphoidTests("positive", Get(labs, "bloodCulture")),
    TyphoidTests(Get(labs, "widalTest"), "positive") }

\* C11: with the lab results fixed, the report with any entry appended has
\* a score and a tier (low < moderate < high) at least those of the report,
\* for both diseases; with the report fixed, one more test reported
\* positive gives a tier at least the tier of the response.
C11_TierMonotonic ==
  Assessed =>
    /\ \A e \in AppendableEntries :
         LET longer  == Append(Report, e)
             malaria == assessMalariaRisk(longer, MalariaLabs)
             typhoid == assessTyphoidRisk(longer, TyphoidLabs)
         IN  /\ malaria.score >= MalariaResult.score
             /\ typhoid.score >= TyphoidResult.score
             /\ TierRank(malaria.riskLevel) >= TierRank(MalariaResult.riskLevel)
             /\ TierRank(typhoid.riskLevel) >= TierRank(TyphoidResult.riskLevel)
    /\ \A labs \in MalariaLabsRaised(MalariaLabs) :
         TierRank(assessMalariaRisk(Report, labs).riskLevel)
           >= TierRank(MalariaResult.riskLevel)
    /\ \A labs \in TyphoidLabsRaised(TyphoidLabs) :
         TierRank(assessTyphoidRisk(Report, labs).riskLevel)
           >= TierRank(TyphoidResult.riskLevel)

\* a report of five malaria matches was answered 'high' by its score alone
C11_Witness ==
  /\ Assessed
  /\ MalariaResult.score = 5
  /\ ~ MalariaPositive(MalariaLabs)
  /\ MalariaResult.riskLevel = "high"
  /\ TyphoidResult.riskLevel = "moderate"

\* the tier of a disease, from the match count and the positive tests
ExpectedTier(count, positive) == IF positive THEN "high" ELSE ScoreTier(count)

\* createDiagnosis has answered and a diagnosis is stored
DiagnosisStored ==
  phase = "responded" /\ endpoint = "create" /\ diagnoses # <<>>

\* the diagnosis stored last
Stored == diagnoses[Len(diagnoses)]

\* C12: a diagnosis persisted by createDiagnosis holds, for each disease,
\* the assessment fields of the request (testResults, species) and the tier
\* computed from the request's symptoms and that disease's testResults,
\* whatever riskLevel the request sent; it holds no score, matchingSymptoms
\* or recommendation.
C12_StoredRiskLevelComputed ==
  DiagnosisStored =>
    /\ Stored.malariaAssessment.riskLevel
         = ExpectedTier(MatchCount(Report, MalariaCatalog), MalariaPositive(MalariaLabs))
    /\ Stored.typhoidAssessment.riskLevel
         = ExpectedTier(MatchCount(Report, TyphoidCatalog), TyphoidPositive(TyphoidLabs))
    /\ Stored.malariaAssessment.testResults = GetObj(submitted.malariaAssessment, "testResults")
    /\ Stored.malariaAssessment.species = Get(submitted.malariaAssessment, "species")
    /\ Stored.typhoidAssessment.testResults = GetObj(submitted.typhoidAssessment, "testResults")
    /\ DOMAIN Stored.malariaAssessment = {"riskLevel", "testResults", "species"}
    /\ DOMAIN Stored.typhoidAssessment = {"riskLevel", "testResults"}
    /\ {"score", "matchingSymptoms", "recommendation"} \cap DOMAIN Stored = {}

\* the request sent malaria riskLevel 'low' and 'high' was stored
C12_Witness ==
  /\ DiagnosisStored
  /\ Get(submitted.malariaAssessment, "riskLevel") = "low"
  /\ Stored.malariaAssessment.riskLevel = "high"
  /\ Stored.malariaAssessment.species = "P. vivax"
  /\ Get(submitted.typhoidAssessment, "riskLevel") = "high"
  /\ Stored.typhoidAssessment.riskLevel = "low"

\* the request names a patient or an appointment that does not exist
UnknownReference ==
  submitted.patient \notin Patients \/ submitted.appointment \notin Appointments

\* C14: createDiagnosis persists nothing when the request fails validation
\* (an empty or missing symptom list among the failures) or names a patient
\* or an appointment that does not exist; every stored diagnosis has a
\* riskLevel of low, moderate or high for both diseases.
C14_CreateAllOrNothing ==
  /\ ( /\ phase = "responded"
       /\ endpoint = "create"
       /\ \/ validationErrors # {}
          \/ submitted.symptoms.kind # "array"
          \/ submitted.symptoms.items = <<>>
          \/ UnknownReference )
       => /\ diagnoses = <<>>
          /\ res.status \in {400, 404}
          /\ res.data = <<>>
  /\ \A i \in 1..Len(diagnoses) :
       /\ diagnoses[i].malariaAssessment.riskLevel \in {"low", "moderate", "high"}
       /\ diagnoses[i].typhoidAssessment.riskLevel \in {"low", "moderate", "high"}

\* a request without symptoms, otherwise acceptable, was answered 400 and
\* nothing was stored
C14_Witness ==
  /\ phase = "responded"
  /\ endpoint = "create"
  /\ submitted.symptoms.kind = "absent"
  /\ ~ UnknownReference
  /\ submitted.diagnosisId # Undefined
  /\ validationErrors = {ValidationError("symptoms", 0)}
  /\ res.status = 400
  /\ diagnoses = <<>>


\* ------------------------------------------------------------------------
\* Properties of the diagnosis routes under concurrent requests
\* ------------------------------------------------------------------------

\* the risk tiers of the stored diagnoses, in store order
RiskLevels(store) ==
  [i \in 1..Len(store) |->
     <<store[i].malariaAssessment.riskLevel, store[i].typhoidAssessment.riskLevel>>]

\* updateDiagnosis handles a request whose body carries symptoms and
\* nothing else
SymptomsOnlyUpdate ==
  /\ writer.phase = "validated"
  /\ writer.endpoint = "update"
  /\ writer.submitted.symptoms.kind = "array"
  /\ writer.submitted.diagnosis = <<>>
  /\ writer.submitted.malariaAssessment = <<>>
  /\ writer' = IdleRequest

\* C13: updateDiagnosis never re-runs scoring: an update that changes only
\* the symptom list of a stored diagnosis leaves the malaria and typhoid
\* riskLevel of every stored diagnosis exactly as creation set them.
C13_UpdateNeverRescores ==
  [][SymptomsOnlyUpdate => RiskLevels(diagnoses') = RiskLevels(diagnoses)]_vars

\* a diagnosis created with three catalog symptoms ('moderate') was updated
\* to a single symptom and still says 'moderate'
C13_Witness ==
  /\ diagnoses # <<>>
  /\ reply.kind = "json"
  /\ reply.status = 200
  /\ reply.data = <<diagnoses[1]>>
  /\ Len(diagnoses[1].symptoms) = 1
  /\ MatchCount(diagnoses[1].symptoms, MalariaCatalog) = 1
  /\ diagnoses[1].malariaAssessment.riskLevel = "moderate"
  /\ diagnoses[1].typhoidAssessment.riskLevel = "moderate"

\* a step of an assessment call
AssessmentStep == inflight' # inflight

\* C15: the standalone assessment has no side effects: under any
\* interleaving of assessment calls with each other and with create and
\* update requests, no step of an assessment call changes the diagnosis
\* store, and two calls with the same symptoms and testResults get the same
\* response.
C15_AssessmentIsolated ==
  [][AssessmentStep =>
       /\ diagnoses' = diagnoses
       /\ \A a1, a2 \in answers' :
            a1.submitted = a2.submitted => a1.res = a2.res]_vars

\* every assessment input has been answered, with a stored diagnosis
\* present, while another assessment call and an update are in progress
C15_Witness ==
  /\ { a.submitted : a \in answers } = SessionAssessBodies
  /\ \E a \in answers : a.res.status = 200 /\ a.res.data[1].typhoid.riskLevel = "high"
  /\ diagnoses # <<>>
  /\ \E r \in Slots : inflight[r].phase = "validated"
  /\ writer.phase = "validated"
  /\ writer.endpoint = "update"


\* ------------------------------------------------------------------------
\* Appointments: createAppointmentValidation (routes/appointments.js),
\* createAppointment (appointmentController.js)
\*
\* Time is counted in minutes; appointmentDate is the minute the
\* appointment starts, and duration * 60000 milliseconds are duration
\* minutes.
\* ------------------------------------------------------------------------

\* new Date() when the request is validated
Now == 0

\* duration = 30 in the destructuring of req.body
DefaultDuration == 30

\* isInt({ min: 15, max: 180 })
MinDuration == 15

MaxDuration == 180

checkup == <<"c","h","e","c","k","u","p">>

\* strings that are well-formed ObjectIds, for the appointment routes
AppointmentMongoIds == MongoIds \cup {"d1", "n1"}

\* the ids whose 24 characters are all digits
NumericIds == {"p1", "d1", "n1"}

\* rows of the patients table
PatientRows == {"p1"}

\* rows of the users table, with their roles
UserRows == [d1 |-> "doctor", n1 |-> "nurse"]

AppointmentStatuses ==
  {"scheduled", "confirmed", "in-progress", "completed", "cancelled", "no-show"}

StoredAppointment(doctor, date, duration, status) ==
  [appointmentId |-> "A000001", patient |-> "p1", doctor |-> doctor,
   appointmentDate |-> date, duration |-> duration, status |-> status,
   createdBy |-> "r1"]

\* the Appointment collection when the request arrives
SeededAppointments ==
  {<<>>}
    \cup { <<StoredAppointment("d1", 30, 30, s)>> : s \in AppointmentStatuses }
    \cup { <<StoredAppointment("d1", 45, 15, "confirmed")>>,
           <<StoredAppointment("n1", 30, 30, "scheduled")>>,
           <<StoredAppointment("d1", 15, 15, "cancelled"),
             StoredAppointment("d1", 60, 60, "in-progress")>> }

AppointmentBodies ==
  [ patient : {"p1", "p2", "bad"}, doctor : {"d1", "n1"},
    appointmentDate : {0, 15, 30, 60}, duration : {<<>>, <<10>>, <<15>>, <<30>>},
    reason : {checkup, shortText}, appointmentId : {Undefined, "A000002"} ]

\* the builds of the controllers.  As the files stand the Appointment and
\* Prescription imports are commented out and Patient and User are the
\* Sequelize models: findById is an alias of findByPk up to Sequelize 4 and
\* does not exist from version 5 on.  In the build "mongoose" the names are
\* bound to the mongoose models of backend/models, as the handlers' calls
\* (findById, findByIdAndUpdate, populate) and adminController's imports
\* have them
Builds == {"sequelize-v4", "sequelize-v5", "mongoose"}

\* body('patient').isMongoId(), body('doctor').isMongoId()
AppointmentIdErrors(field, value) ==
  IF value \in AppointmentMongoIds THEN {} ELSE {ValidationError(field, 0)}

\* body('appointmentDate').isISO8601().custom(...): the date must be in
\* the future
AppointmentDateErrors(date) ==
  IF date <= Now THEN {ValidationError("appointmentDate", 0)} ELSE {}

\* body('reason').isLength({ min: 5, max: 500 })
ReasonErrors(reason) ==
  IF Len(reason) < 5 \/ Len(reason) > 500
    THEN {ValidationError("reason", 0)}
    ELSE {}

\* body('duration').optional().isInt({ min: 15, max: 180 })
DurationErrors(duration) ==
  IF duration # <<>> /\ (duration[1] < MinDuration \/ duration[1] > MaxDuration)
    THEN {ValidationError("duration", 0)}
    ELSE {}

createAppointmentValidation(b) ==
  AppointmentIdErrors("patient", b.patient)
    \cup AppointmentIdErrors("doctor", b.doctor)
    \cup AppointmentDateErrors(b.appointmentDate)
    \cup ReasonErrors(b.reason)
    \cup DurationErrors(b.duration)

\* Patient.findById(patient) on the Sequelize model of Patient.pg.js, whose
\* primary key is an INTEGER
PatientFindById(build, patient) ==
  IF build = "mongoose"
    THEN (IF patient \in PatientRows THEN "found" ELSE "missing")
  ELSE IF build = "sequelize-v5" THEN "TypeError"
  ELSE IF patient \notin NumericIds THEN "SequelizeDatabaseError"
  ELSE IF patient \in PatientRows THEN "found"
  ELSE "missing"

\* User.findOne({ _id: doctor, role: 'doctor' }) on the Sequelize model of
\* User.pg.js: the options carry no where clause, the first row is returned
UserFindOne(build, doctor) ==
  IF build = "mongoose"
    THEN (IF doctor \in DOMAIN UserRows /\ UserRows[doctor] = "doctor"
            THEN "found" ELSE "missing")
  ELSE IF DOMAIN UserRows = {} THEN "missing" ELSE "found"

\* the Appointment model is not imported by appointmentController.js as it
\* stands: the import is commented out
AppointmentBound(build) == build = "mongoose"

\* const { ..., duration = 30 } = req.body
RequestedDuration(b) == IF b.duration = <<>> THEN DefaultDuration ELSE b.duration[1]

\* the filter of Appointment.findOne: an active appointment of the doctor
\* that starts inside the requested interval, or starts at or before its
\* start and ends after it
ConflictingAppointment(store, doctor, appointmentStart, appointmentEnd) ==
  \E i \in 1..Len(store) :
    /\ store[i].doctor = doctor
    /\ store[i].status \in {"scheduled", "confirmed", "in-progress"}
    /\ \/ /\ store[i].appointmentDate >= appointmentStart
          /\ store[i].appointmentDate < appointmentEnd
       \/ /\ store[i].appointmentDate <= appointmentStart
          /\ store[i].appointmentDate + store[i].duration > appointmentStart

\* the document Appointment.create builds from appointmentData
AppointmentDocument(b, user) ==
  [appointmentId |-> b.appointmentId, patient |-> b.patient, doctor |-> b.doctor,
   appointmentDate |-> b.appointmentDate,
   duration |-> RequestedDuration(b), status |-> "scheduled",
   createdBy |-> user]

\* Appointment.create(appointmentData) and the 201 response: the schema
\* requires appointmentId and keeps it unique
InsertAppointment(b, store) ==
  IF b.appointmentId = Undefined
    THEN [res |-> [NextError EXCEPT !.error = "ValidationError"], store |-> store]
  ELSE IF \E i \in 1..Len(store) : store[i].appointmentId = b.appointmentId
    THEN [res |-> [NextError EXCEPT !.error = "MongoServerError"], store |-> store]
  ELSE
    [res |-> JsonResponse(201, TRUE, Undefined,
                          <<AppointmentDocument(b, "r1")>>, <<>>),
     store |-> Append(store, AppointmentDocument(b, "r1"))]

\* the outcome of createAppointment for a request body and a store: the
\* response and the store afterwards
CreateAppointmentOutcome(build, b, errors, store) ==
  IF errors # {}
    THEN [res |-> JsonResponse(400, FALSE, "Validation failed", <<>>, <<>>),
          store |-> store]
  ELSE IF PatientFindById(build, b.patient) \in {"TypeError", "SequelizeDatabaseError"}
    THEN [res |-> [NextError EXCEPT !.error = PatientFindById(build, b.patient)],
          store |-> store]
  ELSE IF PatientFindById(build, b.patient) = "missing"
    THEN [res |-> JsonResponse(404, FALSE, "Patient not found", <<>>, <<>>),
          store |-> store]
  ELSE IF UserFindOne(build, b.doctor) = "missing"
    THEN [res |-> JsonResponse(404, FALSE, "Doctor not found", <<>>, <<>>),
          store |-> store]
  ELSE IF ~AppointmentBound(build)
    THEN [res |-> [NextError EXCEPT !.error = "ReferenceError"], store |-> store]
  ELSE IF ConflictingAppointment(store, b.doctor, b.appointmentDate,
                                 b.appointmentDate + RequestedDuration(b))
    THEN [res |-> JsonResponse(409, FALSE, "Time slot is already booked", <<>>, <<>>),
          store |-> store]
  ELSE InsertAppointment(b, store)

\* the appointment routes at server start, with the appointments booked
\* earlier
AppointmentInit ==
  /\ DiagnosisInit
  /\ booking = Idle
  /\ appointments \in SeededAppointments
  /\ gate = Idle
  /\ reading = Idle
  /\ account = Idle
  /\ users = <<>>
  /\ dispensing = Idle
  /\ prescriptions = <<>>
  /\ client = Idle

\* POST /api/appointments arrives
PostAppointment ==
  /\ booking.phase = "idle"
  /\ \E b \in AppointmentBodies, build \in Builds :
       booking' = [phase |-> "received", build |-> build, submitted |-> b,
                   body |-> b, validationErrors |-> {}, before |-> appointments,
                   res |-> NoResponse]
  /\ UNCHANGED <<appointments, diagnosisVars, authVars, recordVars, userVars,
               pharmacyVars, clientVars>>

CreateAppointmentValidation ==
  /\ booking.phase = "received"
  /\ booking' = [booking EXCEPT
                   !.validationErrors = createAppointmentValidation(booking.body),
                   !.body.reason = Trim(@),
                   !.phase = "validated"]
  /\ UNCHANGED <<appointments, diagnosisVars, authVars, recordVars, userVars,
               pharmacyVars, clientVars>>

CreateAppointment ==
  /\ booking.phase = "validated"
  /\ LET outcome == CreateAppointmentOutcome(booking.build, booking.body,
                                             booking.validationErrors, appointments)
     IN  /\ booking' = [booking EXCEPT !.res = outcome.res, !.phase = "responded"]
         /\ appointments' = outcome.store
  /\ UNCHANGED <<diagnosisVars, authVars, recordVars, userVars,
               pharmacyVars, clientVars>>

AppointmentNext ==
  \/ PostAppointment
  \/ CreateAppointmentValidation
  \/ CreateAppointment

AppointmentSpec == AppointmentInit /\ [][AppointmentNext]_vars

\* ------------------------------------------------------------------------
\* Properties of appointment scheduling
\* ------------------------------------------------------------------------

\* the request names an existing patient and an existing doctor and
\* passed the route's validation
BookingAccepted ==
  /\ booking.phase = "responded"
  /\ booking.validationErrors = {}
  /\ booking.body.patient \in PatientRows
  /\ booking.body.doctor \in DOMAIN UserRows
  /\ UserRows[booking.body.doctor] = "doctor"

\* the half-open intervals [s1, s1 + d1) and [s2, s2 + d2) overlap
Overlap(s1, d1, s2, d2) == s1 < s2 + d2 /\ s2 < s1 + d1

\* the doctor already has an active appointment overlapping the request
SlotTaken ==
  \E i \in 1..Len(booking.before) :
    /\ booking.before[i].doctor = booking.body.doctor
    /\ booking.before[i].status \in {"scheduled", "confirmed", "in-progress"}
    /\ Overlap(booking.before[i].appointmentDate, booking.before[i].duration,
               booking.body.appointmentDate,
               IF booking.body.duration = <<>> THEN 30 ELSE booking.body.duration[1])

\* C16: createAppointment with an existing patient and doctor answers 409
\* 'Time slot is already booked' and creates nothing exactly when the doctor
\* already has a scheduled, confirmed or in-progress appointment whose
\* interval overlaps the requested one; otherwise the appointment is created.
C16_ConflictRejected ==
  BookingAccepted =>
    IF SlotTaken
      THEN /\ booking.res.kind = "json"
           /\ booking.res.status = 409
           /\ booking.res.error = "Time slot is already booked"
           /\ appointments = booking.before
      ELSE /\ booking.res.kind = "json"
           /\ booking.res.status = 201
           /\ Len(appointments) = Len(booking.before) + 1


\* ------------------------------------------------------------------------
\* Authentication and authorization (middleware/auth.js) in front of the
\* protected routes
\* ------------------------------------------------------------------------

Roles == {"patient", "doctor", "nurse", "pharmacist", "receptionist", "admin"}

\* rows of the users table: role and status by primary key
AuthUserRows ==
  [ u1 |-> [role |-> "doctor",       status |-> "active"],
    u2 |-> [role |-> "patient",      status |-> "active"],
    u3 |-> [role |-> "nurse",        status |-> "active"],
    u4 |-> [role |-> "pharmacist",   status |-> "active"],
    u5 |-> [role |-> "admin",        status |-> "active"],
    u6 |-> [role |-> "receptionist", status |-> "active"],
    u7 |-> [role |-> "doctor",       status |-> "inactive"],
    u8 |-> [role |-> "admin",        status |-> "suspended"] ]

\* the tokens signed with JWT_SECRET and the id each carries; u9 has been
\* deleted since its token was issued
JwtPayload ==
  [ j1 |-> "u1", j2 |-> "u2", j3 |-> "u3", j4 |-> "u4", j5 |-> "u5",
    j6 |-> "u6", j7 |-> "u7", j8 |-> "u8", j9 |-> "u9" ]

\* first words of an Authorization header for which startsWith('Bearer')
\* is true
BearerPrefixed == {"Bearer", "Bearer123"}

\* req.headers.authorization, split at the spaces; <<>> is a request
\* without the header
AuthorizationHeaders ==
  { <<>>, <<"Basic", "j1">>, <<"bearer", "j1">>, <<"Bearer">>, <<"Bearer123">>,
    <<"Bearer", "", "j1">>, <<"Bearer", "invalidtoken">> }
    \cup { <<"Bearer", t>> : t \in DOMAIN JwtPayload }

\* the routes behind authorize(...), with the roles each names
AuthorizedRoutes ==
  [ PostDiagnosis        |-> {"doctor"},
    PutDiagnosis         |-> {"doctor"},
    PostAssessment       |-> {"doctor", "nurse"},
    PostPrescription     |-> {"doctor"},
    PutPrescription      |-> {"doctor"},
    PatchDispense        |-> {"pharmacist"},
    PostUser             |-> {"admin"},
    DeleteUser           |-> {"admin"},
    PatchUserStatus      |-> {"admin"},
    GetAdminDashboard    |-> {"admin"},
    GetAdminSystemHealth |-> {"admin"},
    GetAdminReports      |-> {"admin"},
    GetAdminAuditLogs    |-> {"admin"},
    PostAdminBackup      |-> {"admin"},
    GetAdminSettings     |-> {"admin"},
    PutAdminSettings     |-> {"admin"} ]

\* the routes behind protect alone
OpenRoutes == {"GetMe", "PostLogout", "GetDiagnoses", "PutUser"}

ProtectedRoutes == DOMAIN AuthorizedRoutes \cup OpenRoutes

Unauthorized(error) == JsonResponse(401, FALSE, error, <<>>, <<>>)

\* token = req.headers.authorization.split(' ')[1], inside the branch for
\* a header that starts with 'Bearer'
BearerToken(header) ==
  IF header # <<>> /\ header[1] \in BearerPrefixed /\ Len(header) >= 2
    THEN header[2]
    ELSE Undefined

\* the try block of protect
ProtectTry(header, dbUp) ==
  LET token == BearerToken(header)
  IN
  IF token \notin DOMAIN JwtPayload \/ ~dbUp
    THEN [responses |-> <<Unauthorized("Not authorized, token failed")>>,
          nextCalls |-> 0, returned |-> TRUE, user |-> <<>>]
  ELSE IF JwtPayload[token] \notin DOMAIN AuthUserRows
    THEN [responses |-> <<Unauthorized("User not found")>>,
          nextCalls |-> 0, returned |-> TRUE, user |-> <<>>]
  ELSE IF AuthUserRows[JwtPayload[token]].status # "active"
    THEN [responses |-> <<Unauthorized("Account is not active")>>,
          nextCalls |-> 0, returned |-> TRUE,
          user |-> <<AuthUserRows[JwtPayload[token]]>>]
  ELSE [responses |-> <<>>, nextCalls |-> 1, returned |-> FALSE,
        user |-> <<AuthUserRows[JwtPayload[token]]>>]

\* mutant: the status of the user is not looked at
ProtectOutcome_AnyStatus(header, dbUp) ==
  LET token == BearerToken(header)
  IN
  IF header = <<>> \/ header[1] \notin BearerPrefixed
    THEN [responses |-> <<Unauthorized("Not authorized, no token")>>,
          nextCalls |-> 0, user |-> <<>>]
  ELSE IF token \notin DOMAIN JwtPayload \/ ~dbUp
    THEN [responses |-> <<Unauthorized("Not authorized, token failed")>>,
          nextCalls |-> 0, user |-> <<>>]
  ELSE IF JwtPayload[token] \notin DOMAIN AuthUserRows
    THEN [responses |-> <<Unauthorized("User not found")>>,
          nextCalls |-> 0, user |-> <<>>]
  ELSE [responses |-> <<>>, nextCalls |-> 1,
        user |-> <<AuthUserRows[JwtPayload[token]]>>]

\* protect: the responses it sends, the times it calls next(), and req.user
ProtectOutcome(header, dbUp) ==
  LET bearer == header # <<>> /\ header[1] \in BearerPrefixed
      tried  == IF bearer
                  THEN ProtectTry(header, dbUp)
                  ELSE [responses |-> <<>>, nextCalls |-> 0, returned |-> FALSE,
                        user |-> <<>>]
      token  == IF bearer THEN BearerToken(header) ELSE Undefined
  IN
  IF ~tried.returned /\ token \in {Undefined, ""}
    THEN [responses |-> Append(tried.responses,
                               Unauthorized("Not authorized, no token")),
          nextCalls |-> tried.nextCalls, user |-> tried.user]
    ELSE [responses |-> tried.responses, nextCalls |-> tried.nextCalls,
          user |-> tried.user]

\* mutant: every authenticated user is let through
AuthorizeOutcome_AnyRole(roles, user) ==
  IF user = <<>>
    THEN [responses |-> <<Unauthorized("User not authenticated")>>, nextCalls |-> 0]
    ELSE [responses |-> <<>>, nextCalls |-> 1]

\* authorize(...roles)
AuthorizeOutcome(roles, user) ==
  IF user = <<>>
    THEN [responses |-> <<Unauthorized("User not authenticated")>>, nextCalls |-> 0]
  ELSE IF user[1].role \notin roles
    THEN [responses |-> <<JsonResponse(403, FALSE, "User role is not authorized",
                                       <<>>, <<>>)>>,
          nextCalls |-> 0]
  ELSE [responses |-> <<>>, nextCalls |-> 1]

AuthInit ==
  /\ DiagnosisInit
  /\ booking = Idle
  /\ appointments = <<>>
  /\ gate = Idle
  /\ reading = Idle
  /\ account = Idle
  /\ users = <<>>
  /\ dispensing = Idle
  /\ prescriptions = <<>>
  /\ client = Idle

\* a request for a protected route arrives
RequestArrives ==
  /\ gate.phase = "idle"
  /\ \E route \in ProtectedRoutes, header \in AuthorizationHeaders, dbUp \in BOOLEAN :
       gate' = [phase |-> "received", route |-> route, header |-> header,
                dbUp |-> dbUp, user |-> <<>>, responses |-> <<>>,
                handlerCalls |-> 0]
  /\ UNCHANGED <<diagnosisVars, appointmentVars, recordVars, userVars,
               pharmacyVars, clientVars>>

Protect ==
  /\ gate.phase = "received"
  /\ LET outcome == ProtectOutcome(gate.header, gate.dbUp)
     IN  gate' = [gate EXCEPT
                    !.responses = outcome.responses,
                    !.user = outcome.user,
                    !.phase = IF outcome.nextCalls > 0 THEN "protected" ELSE "done"]
  /\ UNCHANGED <<diagnosisVars, appointmentVars, recordVars, userVars,
               pharmacyVars, clientVars>>

Authorize ==
  /\ gate.phase = "protected"
  /\ gate.route \in DOMAIN AuthorizedRoutes
  /\ LET outcome == AuthorizeOutcome(AuthorizedRoutes[gate.route], gate.user)
     IN  gate' = [gate EXCEPT
                    !.responses = gate.responses \o outcome.responses,
                    !.phase = IF outcome.nextCalls > 0 THEN "authorized" ELSE "done"]
  /\ UNCHANGED <<diagnosisVars, appointmentVars, recordVars, userVars,
               pharmacyVars, clientVars>>

\* the route's handler runs and answers
RouteHandler ==
  /\ \/ gate.phase = "authorized"
     \/ gate.phase = "protected" /\ gate.route \in OpenRoutes
  /\ gate' = [gate EXCEPT
                !.handlerCalls = @ + 1,
                !.responses = Append(@, JsonResponse(200, TRUE, Undefined, <<>>, <<>>)),
                !.phase = "done"]
  /\ UNCHANGED <<diagnosisVars, appointmentVars, recordVars, userVars,
               pharmacyVars, clientVars>>

AuthNext ==
  \/ RequestArrives
  \/ Protect
  \/ Authorize
  \/ RouteHandler

AuthSpec == AuthInit /\ [][AuthNext]_vars

\* ------------------------------------------------------------------------
\* Properties of authentication and authorization
\* ------------------------------------------------------------------------

\* the request has passed through protect
Screened == gate.phase \in {"protected", "authorized", "done"}

\* the header is 'Bearer <token>' with a token that verifies
VerifiedBearer ==
  /\ gate.header # <<>>
  /\ gate.header[1] \in BearerPrefixed
  /\ Len(gate.header) >= 2
  /\ gate.header[2] \in DOMAIN JwtPayload

\* the token's user exists and is active
ActiveUser ==
  /\ JwtPayload[gate.header[2]] \in DOMAIN AuthUserRows
  /\ AuthUserRows[JwtPayload[gate.header[2]]].status = "active"

NoBearerHeader == gate.header = <<>> \/ gate.header[1] \notin BearerPrefixed

\* C17: a request reaches the handler of a protected route only if it
\* carries a Bearer token that verifies and the token's user exists and is
\* active; in every other case exactly one 401 is sent and the handler is
\* never invoked, with 'Not authorized, no token' for a request without a
\* Bearer header and 'Not authorized, token failed' for a token that does
\* not verify.
C17_ProtectGuardsHandler ==
  /\ (gate.phase # "idle" /\ gate.handlerCalls > 0) => (VerifiedBearer /\ ActiveUser)
  /\ (Screened /\ ~(VerifiedBearer /\ ActiveUser)) =>
       /\ gate.phase = "done"
       /\ gate.handlerCalls = 0
       /\ Len(gate.responses) = 1
       /\ gate.responses[1].status = 401
       /\ NoBearerHeader => gate.responses[1].error = "Not authorized, no token"
       /\ (~NoBearerHeader /\ ~VerifiedBearer) =>
            gate.responses[1].error = "Not authorized, token failed"

\* the token of an inactive user was answered with a single 401
C17_Witness ==
  /\ gate.phase = "done"
  /\ gate.header = <<"Bearer", "j7">>
  /\ gate.dbUp
  /\ gate.responses = <<Unauthorized("Account is not active")>>
  /\ gate.handlerCalls = 0

\* the roles the routes are said to require
RequiredRoles ==
  [ PostDiagnosis        |-> {"doctor"},
    PutDiagnosis         |-> {"doctor"},
    PostPrescription     |-> {"doctor"},
    PutPrescription      |-> {"doctor"},
    PatchDispense        |-> {"pharmacist"},
    PostAssessment       |-> {"doctor", "nurse"},
    PostUser             |-> {"admin"},
    DeleteUser           |-> {"admin"},
    PatchUserStatus      |-> {"admin"},
    GetAdminDashboard    |-> {"admin"},
    GetAdminSystemHealth |-> {"admin"},
    GetAdminReports      |-> {"admin"},
    GetAdminAuditLogs    |-> {"admin"},
    PostAdminBackup      |-> {"admin"},
    GetAdminSettings     |-> {"admin"},
    PutAdminSettings     |-> {"admin"} ]

\* protect let the request through
Authenticated == gate.phase \in {"protected", "authorized", "done"} /\ gate.user # <<>>
                   /\ gate.user[1].status = "active"

\* C18: a role-restricted handler runs only for a user whose role is in the
\* route's allowed set; any other authenticated user gets 403 and the
\* handler, the only code that changes anything, does not run.
C18_RoleRestricted ==
  (gate.phase # "idle" /\ gate.route \in DOMAIN RequiredRoles) =>
    /\ gate.handlerCalls > 0 =>
         /\ gate.user # <<>>
         /\ gate.user[1].role \in RequiredRoles[gate.route]
    /\ (Authenticated /\ gate.user[1].role \notin RequiredRoles[gate.route]
          /\ gate.phase # "protected") =>
         /\ gate.phase = "done"
         /\ gate.handlerCalls = 0
         /\ Len(gate.responses) = 1
         /\ gate.responses[1].status = 403

\* a nurse asked to dispense a prescription and got 403
C18_Witness ==
  /\ gate.phase = "done"
  /\ gate.route = "PatchDispense"
  /\ gate.user # <<>>
  /\ gate.user[1].role = "nurse"
  /\ Len(gate.responses) = 1
  /\ gate.responses[1].status = 403
  /\ gate.handlerCalls = 0


\* ------------------------------------------------------------------------
\* Reading diagnoses: getDiagnoses and getDiagnosis (diagnosisController.js)
\* behind protect (routes/diagnosis.js)
\* ------------------------------------------------------------------------

\* req.user of the requests: two patients with a patient record, a patient
\* without one, and a doctor
Readers ==
  { [id |-> "u2",  role |-> "patient"],
    [id |-> "u10", role |-> "patient"],
    [id |-> "u11", role |-> "patient"],
    [id |-> "d1",  role |-> "doctor"] }

\* the Patient collection: userId of each patient record
PatientUserId == [p1 |-> "u2", p2 |-> "u10"]

StoredDiagnosis(diagnosisId, patient, doctor) ==
  [diagnosisId |-> diagnosisId, patient |-> patient, doctor |-> doctor]

\* the Diagnosis collection when the request arrives
SeededDiagnoses ==
  { <<>>,
    <<StoredDiagnosis("D000001", "p1", "d1")>>,
    <<StoredDiagnosis("D000001", "p1", "d1"), StoredDiagnosis("D000002", "p2", "d1")>>,
    <<StoredDiagnosis("D000001", "p2", "d2"), StoredDiagnosis("D000002", "p1", "d1"),
      StoredDiagnosis("D000003", "p2", "d1")>> }

\* req.query of GET /api/diagnosis
DiagnosisQueries == [patient : {Undefined, "p1", "p2"}, doctor : {Undefined, "d1"}]

\* req.params.id of GET /api/diagnosis/:id, as a position in the collection
ReadIds == {1, 2, 3}

\* Patient.findOne({ userId: req.user.id })
PatientFindOne(userId) ==
  IF \E p \in DOMAIN PatientUserId : PatientUserId[p] = userId
    THEN <<CHOOSE p \in DOMAIN PatientUserId : PatientUserId[p] = userId>>
    ELSE <<>>

\* the filter getDiagnoses builds from the query and the role
DiagnosisFilter(user, query) ==
  LET fromQuery == [patient |-> query.patient, doctor |-> query.doctor]
  IN
  IF user.role = "doctor"
    THEN [fromQuery EXCEPT !.doctor = user.id]
  ELSE IF user.role = "patient" /\ PatientFindOne(user.id) # <<>>
    THEN [fromQuery EXCEPT !.patient = PatientFindOne(user.id)[1]]
  ELSE fromQuery

\* Diagnosis.find(filter)
DiagnosisFind(filter, store) ==
  LET Matches(doc) ==
        /\ filter.patient \in {Undefined, doc.patient}
        /\ filter.doctor \in {Undefined, doc.doctor}
  IN  SelectSeq(store, Matches)

\* getDiagnoses with the default page and limit
GetDiagnosesOutcome(user, query, store) ==
  JsonResponse(200, TRUE, Undefined, DiagnosisFind(DiagnosisFilter(user, query), store),
               <<>>)

\* getDiagnosis
GetDiagnosisOutcome(id, store) ==
  IF id \notin 1..Len(store)
    THEN JsonResponse(404, FALSE, "Diagnosis not found", <<>>, <<>>)
    ELSE JsonResponse(200, TRUE, Undefined, <<store[id]>>, <<>>)

\* the server starts on a database that holds diagnoses
RecordInit ==
  /\ DiagnosisIdle
  /\ diagnoses \in SeededDiagnoses
  /\ booking = Idle
  /\ appointments = <<>>
  /\ gate = Idle
  /\ reading = Idle
  /\ account = Idle
  /\ users = <<>>
  /\ dispensing = Idle
  /\ prescriptions = <<>>
  /\ client = Idle

\* GET /api/diagnosis arrives and has passed protect
GetDiagnosesArrives ==
  /\ reading.phase = "idle"
  /\ \E user \in Readers, query \in DiagnosisQueries :
       reading' = [phase |-> "received",
                   endpoint |-> "list", user |-> user, query |-> query,
                   id |-> 0, res |-> NoResponse]
  /\ UNCHANGED <<diagnosisVars, appointmentVars, authVars, userVars,
               pharmacyVars, clientVars>>

\* GET /api/diagnosis/:id arrives and has passed protect
GetDiagnosisArrives ==
  /\ reading.phase = "idle"
  /\ \E user \in Readers, id \in ReadIds :
       reading' = [phase |-> "received",
                   endpoint |-> "get", user |-> user,
                   query |-> [patient |-> Undefined, doctor |-> Undefined],
                   id |-> id, res |-> NoResponse]
  /\ UNCHANGED <<diagnosisVars, appointmentVars, authVars, userVars,
               pharmacyVars, clientVars>>

GetDiagnoses ==
  /\ reading.phase = "received"
  /\ reading.endpoint = "list"
  /\ reading' = [reading EXCEPT
                   !.res = GetDiagnosesOutcome(reading.user, reading.query, diagnoses),
                   !.phase = "responded"]
  /\ UNCHANGED <<diagnosisVars, appointmentVars, authVars, userVars,
               pharmacyVars, clientVars>>

GetDiagnosis ==
  /\ reading.phase = "received"
  /\ reading.endpoint = "get"
  /\ reading' = [reading EXCEPT
                   !.res = GetDiagnosisOutcome(reading.id, diagnoses),
                   !.phase = "responded"]
  /\ UNCHANGED <<diagnosisVars, appointmentVars, authVars, userVars,
               pharmacyVars, clientVars>>

RecordNext ==
  \/ GetDiagnosesArrives
  \/ GetDiagnosisArrives
  \/ GetDiagnoses
  \/ GetDiagnosis

RecordSpec == RecordInit /\ [][RecordNext]_vars

\* ------------------------------------------------------------------------
\* Properties of reading
\* ------------------------------------------------------------------------

\* the record belongs to the patient record linked to the user
OwnRecord(doc, user) ==
  /\ doc.patient \in DOMAIN PatientUserId
  /\ PatientUserId[doc.patient] = user.id

\* C19: a user with role patient reads only their own records: every
\* diagnosis a list or get-by-id request returns to a patient belongs to
\* the patient record linked to that user, whatever query parameters or ids
\* the request supplies.
C19_PatientReadsOwn ==
  (reading.phase = "responded" /\ reading.user.role = "patient"
     /\ reading.res.status = 200) =>
    \A i \in 1..Len(reading.res.data) : OwnRecord(reading.res.data[i], reading.user)


\* ------------------------------------------------------------------------
\* Users: createUserValidation, updateUserValidation (routes/users.js),
\* createUser, updateUser (userController.js), User model (models/User.js)
\* ------------------------------------------------------------------------

ann   == <<"a","n","n">>
Ann   == <<"A","n","n">>
bob   == <<"b","o","b">>
shortName == <<"a","b">>
spacedName == <<"a"," ","b">>

annMail      == <<"a","@","x",".","i","o">>
annMailUpper == <<"A","@","X",".","i","o">>
bobMail      == <<"b","@","x",".","i","o">>
noMail       == <<"a","x">>

\* the characters of /^[a-zA-Z0-9._-]+$/
UsernameChars ==
  {UpperChars[i] : i \in 1..Len(UpperChars)}
    \cup {LowerChars[i] : i \in 1..Len(LowerChars)}
    \cup {"0","1","2","3","4","5","6","7","8","9",".","_","-"}

\* body('username').isLength({ min: 3, max: 30 }).matches(/^[a-zA-Z0-9._-]+$/)
UsernameErrors(username) ==
  IF \/ Len(username) < 3
     \/ Len(username) > 30
     \/ \E i \in 1..Len(username) : username[i] \notin UsernameChars
    THEN {ValidationError("username", 0)}
    ELSE {}

\* isEmail: one '@' with a local part before it and a dotted domain after it
IsEmail(email) ==
  \E at \in 2..(Len(email) - 3) :
    /\ email[at] = "@"
    /\ \A i \in 1..Len(email) : email[i] = "@" => i = at
    /\ \E dot \in (at + 2)..(Len(email) - 1) : email[dot] = "."

\* body('email').isEmail()
EmailErrors(email) ==
  IF IsEmail(email) THEN {} ELSE {ValidationError("email", 0)}

\* normalizeEmail(): the address in lower case
NormalizeEmail(email) ==
  [i \in 1..Len(email) |->
     IF email[i] \in DOMAIN LowerCaseOf THEN LowerCaseOf[email[i]] ELSE email[i]]

\* req.body of POST /api/users
UserBodies ==
  [ username : {ann, Ann, bob, shortName, spacedName},
    email : {annMail, annMailUpper, bobMail, noMail},
    role : {"patient"} ]

\* req.body of PUT /api/users/:id; UndefinedName is a field that is not sent
UserUpdateBodies ==
  [ username : {UndefinedName, Ann, bob, shortName},
    email : {UndefinedName, annMailUpper, bobMail},
    role : {Undefined, "admin"} ]

\* req.params.id of PUT /api/users/:id, as a position in the collection
UserIds == {1, 2, 3}

\* req.user of an update: an admin, or the user with the given id; under
\* the Sequelize protect req.user.id is a number and never === a path id
Requesters ==
  { [role |-> "admin", id |-> 1, idIsString |-> TRUE],
    [role |-> "patient", id |-> 1, idIsString |-> TRUE],
    [role |-> "patient", id |-> 2, idIsString |-> TRUE],
    [role |-> "patient", id |-> 1, idIsString |-> FALSE] }

createUserValidation(b) ==
  UsernameErrors(b.username) \cup EmailErrors(b.email)

\* body('username').optional()..., body('email').optional()...
updateUserValidation(b) ==
  (IF b.username = UndefinedName THEN {} ELSE UsernameErrors(b.username))
    \cup (IF b.email = UndefinedName THEN {} ELSE EmailErrors(b.email))
    \cup (IF b.role = Undefined \/ b.role \in Roles
            THEN {} ELSE {ValidationError("role", 0)})

\* the sanitizers of both chains, written back to req.body
UserSanitized(b) ==
  [b EXCEPT !.email = IF @ = UndefinedName \/ ~IsEmail(@) THEN @ ELSE NormalizeEmail(@)]

\* mutant: only the email is looked up
ExistingUser_EmailOnly(store, username, email) ==
  \E i \in 1..Len(store) : store[i].email = email

\* User.findOne({ $or: [{ email }, { username }] })
ExistingUser(store, username, email) ==
  \E i \in 1..Len(store) : store[i].email = email \/ store[i].username = username

\* the document the User model stores: username trimmed, email in lower
\* case
UserDocument(b) ==
  [username |-> Trim(b.username), email |-> NormalizeEmail(b.email), role |-> b.role]

\* the unique indexes on username and email: the write of doc at position
\* id (0 for an insert) collides with another document
DuplicateUserKey(store, id, doc) ==
  \E i \in 1..Len(store) :
    /\ i # id
    /\ (store[i].username = doc.username \/ store[i].email = doc.email)

\* the outcome of createUser for a request body and a store
CreateUserOutcome(b, errors, store) ==
  IF errors # {}
    THEN [res |-> JsonResponse(400, FALSE, "Validation failed", <<>>, <<>>),
          store |-> store]
  ELSE IF ExistingUser(store, b.username, b.email)
    THEN [res |-> JsonResponse(409, FALSE,
                    "User with this email or username already exists", <<>>, <<>>),
          store |-> store]
  ELSE IF DuplicateUserKey(store, 0, UserDocument(b))
    THEN [res |-> [NextError EXCEPT !.error = "MongoServerError"], store |-> store]
  ELSE [res |-> JsonResponse(201, TRUE, Undefined, <<UserDocument(b)>>, <<>>),
        store |-> Append(store, UserDocument(b))]

\* the stored document after findByIdAndUpdate(id, updateData)
UpdatedUser(doc, b) ==
  [doc EXCEPT
     !.username = IF b.username = UndefinedName THEN @ ELSE Trim(b.username),
     !.email = IF b.email = UndefinedName THEN @ ELSE NormalizeEmail(b.email),
     !.role = IF b.role = Undefined THEN @ ELSE b.role]

\* the outcome of updateUser for a path id, a request body, req.user and a
\* store
UpdateUserOutcome(id, b, errors, requester, store) ==
  IF errors # {}
    THEN [res |-> JsonResponse(400, FALSE, "Validation failed", <<>>, <<>>),
          store |-> store]
  ELSE IF id \notin 1..Len(store)
    THEN [res |-> JsonResponse(404, FALSE, "User not found", <<>>, <<>>),
          store |-> store]
  ELSE IF requester.role # "admin" /\ ~(requester.idIsString /\ requester.id = id)
    THEN [res |-> JsonResponse(403, FALSE, "Not authorized to update this user",
                               <<>>, <<>>),
          store |-> store]
  ELSE IF DuplicateUserKey(store, id, UpdatedUser(store[id], b))
    THEN [res |-> [NextError EXCEPT !.error = "MongoServerError"], store |-> store]
  ELSE [res |-> JsonResponse(200, TRUE, Undefined, <<UpdatedUser(store[id], b)>>, <<>>),
        store |-> [store EXCEPT ![id] = UpdatedUser(store[id], b)]]

UserInit ==
  /\ DiagnosisInit
  /\ booking = Idle
  /\ appointments = <<>>
  /\ gate = Idle
  /\ reading = Idle
  /\ account = Idle
  /\ users = <<>>
  /\ dispensing = Idle
  /\ prescriptions = <<>>
  /\ client = Idle

\* POST /api/users arrives, from an admin; the request before it has been
\* answered
PostUser ==
  /\ account.phase \in {"idle", "responded"}
  /\ \E b \in UserBodies :
       account' = [phase |-> "received", endpoint |-> "create", id |-> 0,
                   requester |-> [role |-> "admin", id |-> 1, idIsString |-> TRUE],
                   submitted |-> b, body |-> b, validationErrors |-> {},
                   before |-> users, res |-> NoResponse]
  /\ UNCHANGED <<users, diagnosisVars, appointmentVars, authVars, recordVars,
               pharmacyVars, clientVars>>

\* PUT /api/users/:id arrives; the request before it has been answered
PutUser ==
  /\ account.phase \in {"idle", "responded"}
  /\ \E b \in UserUpdateBodies, id \in UserIds, requester \in Requesters :
       account' = [phase |-> "received", endpoint |-> "update", id |-> id,
                   requester |-> requester,
                   submitted |-> b, body |-> b, validationErrors |-> {},
                   before |-> users, res |-> NoResponse]
  /\ UNCHANGED <<users, diagnosisVars, appointmentVars, authVars, recordVars,
               pharmacyVars, clientVars>>

CreateUserValidation ==
  /\ account.phase = "received"
  /\ account.endpoint = "create"
  /\ account' = [account EXCEPT
                   !.validationErrors = createUserValidation(account.body),
                   !.body = UserSanitized(@),
                   !.phase = "validated"]
  /\ UNCHANGED <<users, diagnosisVars, appointmentVars, authVars, recordVars,
               pharmacyVars, clientVars>>

UpdateUserValidation ==
  /\ account.phase = "received"
  /\ account.endpoint = "update"
  /\ account' = [account EXCEPT
                   !.validationErrors = updateUserValidation(account.body),
                   !.body = UserSanitized(@),
                   !.phase = "validated"]
  /\ UNCHANGED <<users, diagnosisVars, appointmentVars, authVars, recordVars,
               pharmacyVars, clientVars>>

CreateUser ==
  /\ account.phase = "validated"
  /\ account.endpoint = "create"
  /\ LET outcome == CreateUserOutcome(account.body, account.validationErrors, users)
     IN  /\ account' = [account EXCEPT !.res = outcome.res, !.phase = "responded"]
         /\ users' = outcome.store
  /\ UNCHANGED <<diagnosisVars, appointmentVars, authVars, recordVars,
               pharmacyVars, clientVars>>

UpdateUser ==
  /\ account.phase = "validated"
  /\ account.endpoint = "update"
  /\ LET outcome == UpdateUserOutcome(account.id, account.body,
                                      account.validationErrors, account.requester,
                                      users)
     IN  /\ account' = [account EXCEPT !.res = outcome.res, !.phase = "responded"]
         /\ users' = outcome.store
  /\ UNCHANGED <<diagnosisVars, appointmentVars, authVars, recordVars,
               pharmacyVars, clientVars>>

UserNext ==
  \/ PostUser
  \/ PutUser
  \/ CreateUserValidation
  \/ UpdateUserValidation
  \/ CreateUser
  \/ UpdateUser

UserSpec == UserInit /\ [][UserNext]_vars

\* ------------------------------------------------------------------------
\* Properties of user management
\* ------------------------------------------------------------------------

\* the submitted username or email is that of a user stored when the
\* request arrived
SubmittedTaken ==
  \E i \in 1..Len(account.before) :
    \/ account.before[i].username = account.submitted.username
    \/ account.before[i].email = account.submitted.email

\* C20: creating a user whose username or email equals that of an existing
\* user is rejected with 409 and adds no user; after any sequence of
\* user-creation and user-update requests no two users share a username and
\* no two users share an email.
C20_UsersUnique ==
  /\ (account.phase = "responded" /\ account.endpoint = "create"
        /\ account.validationErrors = {} /\ SubmittedTaken) =>
       /\ account.res.kind = "json"
       /\ account.res.status = 409
       /\ users = account.before
  /\ \A i, j \in 1..Len(users) :
       i # j => /\ users[i].username # users[j].username
                /\ users[i].email # users[j].email

\* with two users stored, one of them renamed by an update, a creation
\* that reuses a stored username under a new email was answered 409
C20_Witness ==
  /\ account.phase = "responded"
  /\ account.endpoint = "create"
  /\ Len(users) = 2
  /\ users[1].username = Ann
  /\ users[1].email = bobMail
  /\ account.submitted.username = Ann
  /\ account.submitted.email = annMailUpper
  /\ account.res.status = 409


\* ------------------------------------------------------------------------
\* Appointment scheduling over several requests: createAppointment,
\* updateAppointment, cancelAppointment, updateAppointmentStatus
\* ------------------------------------------------------------------------

\* req.body of POST /api/appointments in a sequence of requests
ScheduleBodies ==
  [ patient : {"p1"}, doctor : {"d1"}, appointmentDate : {30, 45, 60},
    duration : {<<>>, <<15>>}, reason : {checkup},
    appointmentId : {"A000001", "A000002"} ]

\* req.body of PUT /api/appointments/:id; <<>> is a field that is not sent
ScheduleUpdateBodies ==
  [ appointmentDate : {<<>>, <<30>>, <<45>>}, duration : {<<>>, <<10>>, <<60>>},
    status : {<<>>, <<"scheduled">>, <<"completed">>} ]

\* req.body.status of PATCH /api/appointments/:id/status
SubmittedStatuses == {"scheduled", "confirmed", "cancelled", "pending"}

\* req.params.id, as a position in the collection
AppointmentIds == {1, 2, 3}

\* the optional chains of updateAppointmentValidation on the fields sent
updateAppointmentValidation(b) ==
  DurationErrors(b.duration)
    \cup (IF b.status # <<>> /\ b.status[1] \notin AppointmentStatuses
            THEN {ValidationError("status", 0)} ELSE {})

\* the document after findByIdAndUpdate(id, req.body)
UpdatedAppointment(doc, b) ==
  [doc EXCEPT
     !.appointmentDate = IF b.appointmentDate = <<>> THEN @ ELSE b.appointmentDate[1],
     !.duration = IF b.duration = <<>> THEN @ ELSE b.duration[1],
     !.status = IF b.status = <<>> THEN @ ELSE b.status[1]]

\* Appointment.findByIdAndUpdate(id, update) answered by a handler: the
\* name is unbound, or no document has the id, or the document is replaced
FindAppointmentByIdAndUpdate(build, id, store, updated(_)) ==
  IF ~AppointmentBound(build)
    THEN [res |-> [NextError EXCEPT !.error = "ReferenceError"], store |-> store]
  ELSE IF id \notin 1..Len(store)
    THEN [res |-> JsonResponse(404, FALSE, "Appointment not found", <<>>, <<>>),
          store |-> store]
  ELSE [res |-> JsonResponse(200, TRUE, Undefined, <<updated(store[id])>>, <<>>),
        store |-> [store EXCEPT ![id] = updated(@)]]

\* the outcome of updateAppointment
UpdateAppointmentOutcome(build, id, b, store) ==
  LET updated(doc) == UpdatedAppointment(doc, b)
  IN  IF updateAppointmentValidation(b) # {}
        THEN [res |-> JsonResponse(400, FALSE, "Validation failed", <<>>, <<>>),
              store |-> store]
        ELSE FindAppointmentByIdAndUpdate(build, id, store, updated)

\* the outcome of cancelAppointment
CancelAppointmentOutcome(build, id, store) ==
  LET updated(doc) == [doc EXCEPT !.status = "cancelled"]
  IN  FindAppointmentByIdAndUpdate(build, id, store, updated)

\* the outcome of updateAppointmentStatus
UpdateAppointmentStatusOutcome(build, id, status, store) ==
  LET updated(doc) == [doc EXCEPT !.status = status]
  IN  IF status \notin AppointmentStatuses
        THEN [res |-> JsonResponse(400, FALSE, "Invalid status", <<>>, <<>>),
              store |-> store]
        ELSE FindAppointmentByIdAndUpdate(build, id, store, updated)

\* the server at start: no appointment is booked
ScheduleInit ==
  /\ DiagnosisInit
  /\ \E build \in Builds :
       booking = [phase |-> "idle", build |-> build, op |-> "none", res |-> NoResponse]
  /\ appointments = <<>>
  /\ gate = Idle
  /\ reading = Idle
  /\ account = Idle
  /\ users = <<>>
  /\ dispensing = Idle
  /\ prescriptions = <<>>
  /\ client = Idle

\* one createAppointment request, from arrival to response
ScheduleCreate ==
  /\ \E b \in ScheduleBodies :
       LET outcome == CreateAppointmentOutcome(booking.build, b,
                        createAppointmentValidation(b), appointments)
       IN  /\ booking' = [booking EXCEPT !.phase = "responded", !.op = "create",
                                         !.res = outcome.res]
           /\ appointments' = outcome.store
  /\ UNCHANGED <<diagnosisVars, authVars, recordVars, userVars,
               pharmacyVars, clientVars>>

\* one updateAppointment request
ScheduleUpdate ==
  /\ \E id \in AppointmentIds, b \in ScheduleUpdateBodies :
       LET outcome == UpdateAppointmentOutcome(booking.build, id, b, appointments)
       IN  /\ booking' = [booking EXCEPT !.phase = "responded", !.op = "update",
                                         !.res = outcome.res]
           /\ appointments' = outcome.store
  /\ UNCHANGED <<diagnosisVars, authVars, recordVars, userVars,
               pharmacyVars, clientVars>>

\* one cancelAppointment request
ScheduleCancel ==
  /\ \E id \in AppointmentIds :
       LET outcome == CancelAppointmentOutcome(booking.build, id, appointments)
       IN  /\ booking' = [booking EXCEPT !.phase = "responded", !.op = "cancel",
                                         !.res = outcome.res]
           /\ appointments' = outcome.store
  /\ UNCHANGED <<diagnosisVars, authVars, recordVars, userVars,
               pharmacyVars, clientVars>>

\* one updateAppointmentStatus request
ScheduleStatus ==
  /\ \E id \in AppointmentIds, status \in SubmittedStatuses :
       LET outcome == UpdateAppointmentStatusOutcome(booking.build, id, status,
                                                     appointments)
       IN  /\ booking' = [booking EXCEPT !.phase = "responded", !.op = "status",
                                         !.res = outcome.res]
           /\ appointments' = outcome.store
  /\ UNCHANGED <<diagnosisVars, authVars, recordVars, userVars,
               pharmacyVars, clientVars>>

ScheduleNext ==
  \/ ScheduleCreate
  \/ ScheduleUpdate
  \/ ScheduleCancel
  \/ ScheduleStatus

ScheduleSpec == ScheduleInit /\ [][ScheduleNext]_vars

\* ------------------------------------------------------------------------
\* Properties of appointment scheduling over several requests
\* ------------------------------------------------------------------------

ActiveStatuses == {"scheduled", "confirmed", "in-progress"}

\* two active appointments of one doctor overlap
DoubleBooked(store) ==
  \E i, j \in 1..Len(store) :
    /\ i # j
    /\ store[i].doctor = store[j].doctor
    /\ store[i].status \in ActiveStatuses
    /\ store[j].status \in ActiveStatuses
    /\ Overlap(store[i].appointmentDate, store[i].duration,
               store[j].appointmentDate, store[j].duration)

\* C21: after any sequence of createAppointment, updateAppointment,
\* updateAppointmentStatus and cancelAppointment requests, no two
\* appointments of the same doctor that are both scheduled, confirmed or
\* in-progress have overlapping time intervals.
C21_NoDoubleBooking == ~DoubleBooked(appointments)


\* ------------------------------------------------------------------------
\* createAppointment requests in flight at the same time: each awaits its
\* conflict query, then awaits its insert
\* ------------------------------------------------------------------------

\* req.body of the requests in flight
RaceBodies ==
  [ patient : {"p1"}, doctor : {"d1"}, appointmentDate : {30, 45},
    duration : {<<>>, <<15>>}, reason : {checkup},
    appointmentId : {"A000001", "A000002"} ]

\* the response is sent before Appointment.create is reached
AnsweredBeforeInsert(response) ==
  \/ response.kind = "json" /\ response.status \in {400, 404, 409}
  \/ response.kind = "next"
       /\ response.error \in {"TypeError", "SequelizeDatabaseError", "ReferenceError"}

IdleCall == [phase |-> "idle", body |-> NoBody, seen |-> <<>>, res |-> NoResponse]

RaceInit ==
  /\ DiagnosisInit
  /\ \E build \in Builds :
       booking = [build |-> build, calls |-> [r \in Slots |-> IdleCall]]
  /\ appointments = <<>>
  /\ gate = Idle
  /\ reading = Idle
  /\ account = Idle
  /\ users = <<>>
  /\ dispensing = Idle
  /\ prescriptions = <<>>
  /\ client = Idle

\* POST /api/appointments arrives on connection r
RaceArrives(r) ==
  /\ booking.calls[r].phase = "idle"
  /\ \E b \in RaceBodies :
       booking' = [booking EXCEPT !.calls[r] = [@ EXCEPT !.phase = "received",
                                                        !.body = b]]
  /\ UNCHANGED <<appointments, diagnosisVars, authVars, recordVars, userVars,
               pharmacyVars, clientVars>>

\* the handler up to the answer of Appointment.findOne: the lookups and the
\* conflict query see the collection as it is now
RaceQuery(r) ==
  /\ booking.calls[r].phase = "received"
  /\ LET b == booking.calls[r].body
         outcome == CreateAppointmentOutcome(booking.build, b,
                      createAppointmentValidation(b), appointments)
     IN  booking' = [booking EXCEPT !.calls[r] =
                       IF AnsweredBeforeInsert(outcome.res)
                         THEN [@ EXCEPT !.phase = "responded", !.seen = appointments,
                                        !.res = outcome.res]
                         ELSE [@ EXCEPT !.phase = "queried", !.seen = appointments]]
  /\ UNCHANGED <<appointments, diagnosisVars, authVars, recordVars, userVars,
               pharmacyVars, clientVars>>

\* the rest of the handler: Appointment.create on the collection as it is
\* now, and the response
RaceInsert(r) ==
  /\ booking.calls[r].phase = "queried"
  /\ LET outcome == InsertAppointment(booking.calls[r].body, appointments)
     IN  /\ booking' = [booking EXCEPT !.calls[r] = [@ EXCEPT !.phase = "responded",
                                                              !.res = outcome.res]]
         /\ appointments' = outcome.store
  /\ UNCHANGED <<diagnosisVars, authVars, recordVars, userVars,
               pharmacyVars, clientVars>>

RaceNext ==
  \E r \in Slots :
    \/ RaceArrives(r)
    \/ RaceQuery(r)
    \/ RaceInsert(r)

RaceSpec == RaceInit /\ [][RaceNext]_vars

\* ------------------------------------------------------------------------
\* Properties of concurrent createAppointment requests
\* ------------------------------------------------------------------------

\* requests r1 and r2 are for the same doctor and overlapping intervals
\* and ran their conflict queries on the same collection, before either
\* inserted
Interleaved(r1, r2) ==
  LET c1 == booking.calls[r1]
      c2 == booking.calls[r2]
  IN  /\ r1 # r2
      /\ c1.phase = "responded"
      /\ c2.phase = "responded"
      /\ c1.seen = <<>>
      /\ c2.seen = <<>>
      /\ c1.body.doctor = c2.body.doctor
      /\ Overlap(c1.body.appointmentDate, RequestedDuration(c1.body),
                 c2.body.appointmentDate, RequestedDuration(c2.body))

Created(r) == booking.calls[r].res.kind = "json" /\ booking.calls[r].res.status = 201

Rejected409(r) == booking.calls[r].res.kind = "json" /\ booking.calls[r].res.status = 409

\* both requests of a race were answered 201 and the doctor is double
\* booked
DoubleCreate ==
  \E r1, r2 \in Slots :
    Interleaved(r1, r2) /\ Created(r1) /\ Created(r2) /\ DoubleBooked(appointments)

\* C22: when two createAppointment requests for the same doctor and
\* overlapping intervals are processed concurrently, at most one of them
\* creates an appointment and the other receives 409.
C22_OneWinsRace ==
  \A r1, r2 \in Slots :
    Interleaved(r1, r2) =>
      /\ ~(Created(r1) /\ Created(r2))
      /\ Rejected409(r1) \/ Rejected409(r2)


\* ------------------------------------------------------------------------
\* Prescriptions: dispensePrescription, cancelPrescription
\* (prescriptionController.js), Prescription model
\* ------------------------------------------------------------------------

\* largest sum of dispensed quantities the model follows for a medication
MaxDispensed == 4

\* Math.min(a, b)
MathMin(a, b) == IF a <= b THEN a ELSE b

\* a medication as Prescription.create stores it: quantityDispensed and
\* status take the schema's defaults
FreshMedication(quantity) ==
  [quantity |-> quantity, quantityDispensed |-> 0, status |-> "pending"]

\* a prescription as Prescription.create stores it
FreshPrescription(quantities) ==
  [medications |-> [i \in 1..Len(quantities) |-> FreshMedication(quantities[i])],
   status |-> "pending"]

\* the Prescription collection when the requests arrive
SeededPrescriptions ==
  { <<FreshPrescription(<<2>>)>>, <<FreshPrescription(<<2, 3>>)>> }

\* entries of req.body.medications of PATCH /:id/dispense
DispenseEntries == [medicationIndex : {0, 1, 2}, quantityDispensed : {-1, 1, 2}]

\* req.body.medications of PATCH /:id/dispense
DispenseBodies ==
  {<<>>} \cup {<<e>> : e \in DispenseEntries}
    \cup {<<e1, e2>> : e1 \in [medicationIndex : {0, 1, 2}, quantityDispensed : {1}],
                       e2 \in [medicationIndex : {0, 1}, quantityDispensed : {-1, 1}]}

\* req.params.id, as a position in the collection
PrescriptionIds == {1, 2}

\* the Prescription model is not imported by prescriptionController.js as
\* it stands: the import is commented out
PrescriptionBound(build) == build = "mongoose"

\* mutant: the dispensed quantity is not capped at the prescribed one
DispenseEntry_Uncapped(medications, entry) ==
  LET i == entry.medicationIndex + 1
  IN  IF i \notin 1..Len(medications) THEN medications
      ELSE [medications EXCEPT ![i] =
              [@ EXCEPT !.quantityDispensed = @ + entry.quantityDispensed,
                        !.status = "partially-dispensed"]]

\* the body of the forEach callback for one entry
DispenseEntry(medications, entry) ==
  LET i == entry.medicationIndex + 1
  IN  IF i \notin 1..Len(medications) THEN medications
      ELSE LET dispensed == MathMin(medications[i].quantityDispensed
                                      + entry.quantityDispensed,
                                    medications[i].quantity)
           IN  [medications EXCEPT ![i] =
                  [@ EXCEPT !.quantityDispensed = dispensed,
                            !.status = IF dispensed >= medications[i].quantity
                                         THEN "dispensed"
                                       ELSE IF dispensed > 0
                                         THEN "partially-dispensed"
                                       ELSE @]]

RECURSIVE DispenseEntries_forEach(_, _)
\* medications.forEach(...) over the entries of the request, in order
DispenseEntries_forEach(medications, entries) ==
  IF entries = <<>> THEN medications
  ELSE DispenseEntries_forEach(DispenseEntry(medications, Head(entries)),
                               Tail(entries))

\* the pre('save') hook that derives the prescription's status from its
\* medications
PreSaveStatus(doc) ==
  LET allDispensed ==
        \A i \in 1..Len(doc.medications) : doc.medications[i].status = "dispensed"
      someDispensed ==
        \E i \in 1..Len(doc.medications) :
          doc.medications[i].status \in {"dispensed", "partially-dispensed"}
  IN  IF allDispensed THEN [doc EXCEPT !.status = "dispensed"]
      ELSE IF someDispensed THEN [doc EXCEPT !.status = "partially-dispensed"]
      ELSE doc

\* the schema's validators on save: quantityDispensed has min 0
PrescriptionSchemaErrors(doc) ==
  \E i \in 1..Len(doc.medications) : doc.medications[i].quantityDispensed < 0

\* the document dispensePrescription has in hand when it calls save()
DispensedDocument(doc, entries) ==
  [doc EXCEPT !.medications = DispenseEntries_forEach(@, entries)]

\* the outcome of dispensePrescription; the handler does not consult
\* validationResult(req)
DispensePrescriptionOutcome(build, id, entries, store) ==
  IF ~PrescriptionBound(build)
    THEN [res |-> [NextError EXCEPT !.error = "ReferenceError"], store |-> store]
  ELSE IF id \notin 1..Len(store)
    THEN [res |-> JsonResponse(404, FALSE, "Prescription not found", <<>>, <<>>),
          store |-> store]
  ELSE IF PrescriptionSchemaErrors(DispensedDocument(store[id], entries))
    THEN [res |-> [NextError EXCEPT !.error = "ValidationError"], store |-> store]
  ELSE LET saved == PreSaveStatus(DispensedDocument(store[id], entries))
       IN  [res |-> JsonResponse(200, TRUE, Undefined, <<saved>>, <<>>),
            store |-> [store EXCEPT ![id] = saved]]

\* the outcome of cancelPrescription
CancelPrescriptionOutcome(build, id, store) ==
  IF ~PrescriptionBound(build)
    THEN [res |-> [NextError EXCEPT !.error = "ReferenceError"], store |-> store]
  ELSE IF id \notin 1..Len(store)
    THEN [res |-> JsonResponse(404, FALSE, "Prescription not found", <<>>, <<>>),
          store |-> store]
  ELSE [res |-> JsonResponse(200, TRUE, Undefined,
                             <<[store[id] EXCEPT !.status = "cancelled"]>>, <<>>),
        store |-> [store EXCEPT ![id] = [@ EXCEPT !.status = "cancelled"]]]

\* the quantity the entries of a request ask to dispense of medication i
RECURSIVE Requested(_, _)
Requested(entries, i) ==
  IF entries = <<>> THEN 0
  ELSE (IF Head(entries).medicationIndex + 1 = i
          THEN Head(entries).quantityDispensed ELSE 0)
       + Requested(Tail(entries), i)

PositiveQuantities(entries) ==
  \A k \in 1..Len(entries) : entries[k].quantityDispensed > 0

\* the routes at server start, with the prescriptions written earlier;
\* requested[i] is the quantity of medication i of the first prescription
\* that the requests answered 200 have asked to dispense, positive tells
\* that every quantity asked for so far was positive, and onlyDispensed that
\* the first prescription has been changed by dispensing only
PharmacyInit ==
  /\ DiagnosisInit
  /\ booking = Idle
  /\ appointments = <<>>
  /\ gate = Idle
  /\ reading = Idle
  /\ account = Idle
  /\ users = <<>>
  /\ prescriptions \in SeededPrescriptions
  /\ \E build \in Builds :
       dispensing = [build |-> build, op |-> "none", id |-> 0, entries |-> <<>>,
                     res |-> NoResponse,
                     requested |-> [i \in 1..2 |-> 0], positive |-> TRUE,
                     onlyDispensed |-> TRUE]
  /\ client = Idle

\* one PATCH /api/prescriptions/:id/dispense, from arrival to response
DispensePrescription ==
  /\ \E id \in PrescriptionIds, entries \in DispenseBodies :
       /\ \A i \in 1..2 : dispensing.requested[i] + Requested(entries, i) <= MaxDispensed
       /\ LET outcome == DispensePrescriptionOutcome(dispensing.build, id, entries,
                                                     prescriptions)
              ok == outcome.res.kind = "json" /\ outcome.res.status = 200
              positive == dispensing.positive /\ PositiveQuantities(entries)
          IN  /\ dispensing' =
                   [dispensing EXCEPT
                      !.op = "dispense", !.id = id, !.entries = entries,
                      !.res = outcome.res, !.positive = positive,
                      !.requested = IF ok /\ positive /\ id = 1
                                      THEN [i \in 1..2 |-> @[i] + Requested(entries, i)]
                                      ELSE @]
              /\ prescriptions' = outcome.store
  /\ UNCHANGED <<diagnosisVars, appointmentVars, authVars, recordVars, userVars,
                 clientVars>>

\* one PATCH /api/prescriptions/:id/cancel, from arrival to response
CancelPrescription ==
  /\ \E id \in PrescriptionIds :
       LET outcome == CancelPrescriptionOutcome(dispensing.build, id, prescriptions)
       IN  /\ dispensing' =
                [dispensing EXCEPT
                   !.op = "cancel", !.id = id, !.entries = <<>>,
                   !.res = outcome.res,
                   !.onlyDispensed = @ /\ outcome.store[1] = prescriptions[1]]
           /\ prescriptions' = outcome.store
  /\ UNCHANGED <<diagnosisVars, appointmentVars, authVars, recordVars, userVars,
                 clientVars>>

PharmacyNext ==
  \/ DispensePrescription
  \/ CancelPrescription

PharmacySpec == PharmacyInit /\ [][PharmacyNext]_vars

\* ------------------------------------------------------------------------
\* Properties of prescription dispensing
\* ------------------------------------------------------------------------

\* C23: after any sequence of dispensePrescription requests with positive
\* quantities, every medication satisfies 0 <= quantityDispensed <=
\* quantity, quantityDispensed has not decreased, and it equals
\* min(quantity, sum of the quantities dispensed for that medication); an
\* entry whose medicationIndex matches no medication changes no medication.
C23_DispensedBounded ==
  [][dispensing'.positive =>
       \A i \in 1..Len(prescriptions[1].medications) :
         LET med == prescriptions'[1].medications[i]
         IN  /\ 0 <= med.quantityDispensed
             /\ med.quantityDispensed <= med.quantity
             /\ med.quantityDispensed
                  >= prescriptions[1].medications[i].quantityDispensed
             /\ med.quantityDispensed
                  = MathMin(med.quantity, dispensing'.requested[i])]_vars

\* medication 1 was asked for more than was prescribed and is capped, and
\* the last request, answered 200, named only a medication that is not there
C23_Witness ==
  /\ dispensing.positive
  /\ dispensing.op = "dispense"
  /\ dispensing.id = 1
  /\ dispensing.res.status = 200
  /\ Len(prescriptions[1].medications) = 2
  /\ dispensing.entries = <<[medicationIndex |-> 2, quantityDispensed |-> 2]>>
  /\ dispensing.requested[1] = 3
  /\ prescriptions[1].medications[1].quantityDispensed = 2
  /\ prescriptions[1].medications[2].quantityDispensed = 1


\* the prescription the sequence of requests works on
Dispensed == prescriptions[1]

\* a dispensePrescription request on it was answered 200
DispenseSucceeded ==
  /\ dispensing.op = "dispense"
  /\ dispensing.id = 1
  /\ dispensing.res.kind = "json"
  /\ dispensing.res.status = 200

MedicationStatusAgrees(med) ==
  /\ med.status = "dispensed" <=> med.quantityDispensed >= med.quantity
  /\ med.status = "partially-dispensed"
       <=> (0 < med.quantityDispensed /\ med.quantityDispensed < med.quantity)
  /\ med.status = "pending" <=> med.quantityDispensed = 0

PrescriptionStatusAgrees(doc) ==
  LET all == \A i \in 1..Len(doc.medications) : doc.medications[i].status = "dispensed"
      some == \E i \in 1..Len(doc.medications) : doc.medications[i].status # "pending"
  IN  /\ doc.status = "dispensed" <=> all
      /\ doc.status = "partially-dispensed" <=> (some /\ ~all)

\* C24: after every successful dispensePrescription on a prescription that
\* was created and changed only by dispensing, statuses agree with
\* quantities: a medication is 'dispensed' exactly when quantityDispensed >=
\* quantity, 'partially-dispensed' exactly when 0 < quantityDispensed <
\* quantity and 'pending' exactly when quantityDispensed = 0; the
\* prescription is 'dispensed' exactly when all its medications are, and
\* 'partially-dispensed' exactly when some but not all dispensing is
\* complete.
C24_StatusesAgree ==
  (DispenseSucceeded /\ dispensing.onlyDispensed) =>
    /\ \A i \in 1..Len(Dispensed.medications) :
         MedicationStatusAgrees(Dispensed.medications[i])
    /\ PrescriptionStatusAgrees(Dispensed)

\* the same statement for sequences of requests whose quantities are all
\* positive, as dispensePrescriptionValidation asks
StatusesAgreeWhenPositive == dispensing.positive => C24_StatusesAgree

\* C25: once cancelPrescription has set a prescription's status to
\* 'cancelled', no later dispensePrescription request changes its status or
\* increases the quantityDispensed of any of its medications.
C25_CancellationFinal ==
  [][Dispensed.status = "cancelled" =>
       /\ Dispensed'.status = "cancelled"
       /\ \A i \in 1..Len(Dispensed.medications) :
            Dispensed'.medications[i].quantityDispensed
              <= Dispensed.medications[i].quantityDispensed]_vars


\* ------------------------------------------------------------------------
\* dispensePrescription requests in flight at the same time: each awaits
\* Prescription.findById, changes its own copy, then awaits save()
\* ------------------------------------------------------------------------

\* the Prescription collection when the requests arrive
RacePrescriptions ==
  { <<FreshPrescription(<<3>>)>>, <<FreshPrescription(<<3, 2>>)>> }

\* req.body.medications of the requests in flight
RaceDispenseBodies ==
  {<<e>> : e \in [medicationIndex : {0, 1}, quantityDispensed : {1, 2}]}

IdleDispense ==
  [phase |-> "idle", entries |-> <<>>, loaded |-> <<>>, res |-> NoResponse]

\* save() of a document loaded as `loaded` and changed to `changed`: the
\* paths the handler has modified are written over the stored document
SaveModified(stored, loaded, changed) ==
  [stored EXCEPT
     !.status = IF changed.status # loaded.status THEN changed.status ELSE @,
     !.medications =
        [i \in 1..Len(@) |->
           [@[i] EXCEPT
              !.quantityDispensed =
                 IF changed.medications[i].quantityDispensed
                      # loaded.medications[i].quantityDispensed
                   THEN changed.medications[i].quantityDispensed ELSE @,
              !.status =
                 IF changed.medications[i].status # loaded.medications[i].status
                   THEN changed.medications[i].status ELSE @]]]

DispenseRaceInit ==
  /\ DiagnosisInit
  /\ booking = Idle
  /\ appointments = <<>>
  /\ gate = Idle
  /\ reading = Idle
  /\ account = Idle
  /\ users = <<>>
  /\ prescriptions \in RacePrescriptions
  /\ \E build \in Builds :
       dispensing = [build |-> build, calls |-> [r \in Slots |-> IdleDispense]]
  /\ client = Idle

\* PATCH /api/prescriptions/1/dispense arrives on connection r
DispenseArrives(r) ==
  /\ dispensing.calls[r].phase = "idle"
  /\ \E entries \in RaceDispenseBodies :
       dispensing' = [dispensing EXCEPT !.calls[r] = [@ EXCEPT !.phase = "received",
                                                              !.entries = entries]]
  /\ UNCHANGED <<prescriptions, diagnosisVars, appointmentVars, authVars,
                 recordVars, userVars, clientVars>>

\* the handler up to the answer of Prescription.findById
DispenseLoad(r) ==
  /\ dispensing.calls[r].phase = "received"
  /\ dispensing' =
       [dispensing EXCEPT !.calls[r] =
          IF ~PrescriptionBound(dispensing.build)
            THEN [@ EXCEPT !.phase = "responded",
                           !.res = [NextError EXCEPT !.error = "ReferenceError"]]
            ELSE [@ EXCEPT !.phase = "loaded", !.loaded = <<prescriptions[1]>>]]
  /\ UNCHANGED <<prescriptions, diagnosisVars, appointmentVars, authVars,
                 recordVars, userVars, clientVars>>

\* the rest of the handler: the forEach over the request's entries on the
\* loaded copy, save(), and the response
DispenseSave(r) ==
  /\ dispensing.calls[r].phase = "loaded"
  /\ LET loaded == dispensing.calls[r].loaded[1]
         changed == PreSaveStatus(DispensedDocument(loaded, dispensing.calls[r].entries))
         saved == SaveModified(prescriptions[1], loaded, changed)
     IN  /\ dispensing' =
              [dispensing EXCEPT !.calls[r] =
                 [@ EXCEPT !.phase = "responded",
                           !.res = JsonResponse(200, TRUE, Undefined, <<changed>>, <<>>)]]
         /\ prescriptions' = [prescriptions EXCEPT ![1] = saved]
  /\ UNCHANGED <<diagnosisVars, appointmentVars, authVars, recordVars, userVars,
                 clientVars>>

DispenseRaceNext ==
  \E r \in Slots :
    \/ DispenseArrives(r)
    \/ DispenseLoad(r)
    \/ DispenseSave(r)

DispenseRaceSpec == DispenseRaceInit /\ [][DispenseRaceNext]_vars

\* ------------------------------------------------------------------------
\* Properties of concurrent dispensePrescription requests
\* ------------------------------------------------------------------------

\* requests r1 and r2, the only ones made, name the same medication, loaded
\* the same document and were both answered 200
DispensedTogether(r1, r2) ==
  LET c1 == dispensing.calls[r1]
      c2 == dispensing.calls[r2]
  IN  /\ r1 # r2
      /\ \A r \in Slots \ {r1, r2} : dispensing.calls[r].phase = "idle"
      /\ c1.phase = "responded"
      /\ c2.phase = "responded"
      /\ c1.res.status = 200
      /\ c2.res.status = 200
      /\ c1.loaded = c2.loaded
      /\ c1.entries[1].medicationIndex = c2.entries[1].medicationIndex

\* C26: when two dispensePrescription requests for the same medication,
\* with amounts a and b, are processed concurrently, the final
\* quantityDispensed equals min(quantity, previous + a + b), the same value
\* as when the two requests run one after the other.
C26_NoLostDispense ==
  \A r1, r2 \in Slots :
    DispensedTogether(r1, r2) =>
      LET c1 == dispensing.calls[r1]
          c2 == dispensing.calls[r2]
          i == c1.entries[1].medicationIndex + 1
          previous == c1.loaded[1].medications[i].quantityDispensed
      IN  i \in 1..Len(prescriptions[1].medications) =>
            prescriptions[1].medications[i].quantityDispensed
              = MathMin(prescriptions[1].medications[i].quantity,
                        previous + c1.entries[1].quantityDispensed
                                 + c2.entries[1].quantityDispensed)


\* a user-management request of a user who is not an admin is about to be
\* handled.  POST /, DELETE /:id and PATCH /:id/status are behind
\* authorize('admin') and answer such a user 403; PUT /:id is not
NonAdminRequest ==
  /\ account.phase = "validated"
  /\ account.endpoint = "update"
  /\ account.requester.role # "admin"

\* C27: privileges change only through admins: a user-management request
\* issued by a non-admin user changes no user's role and modifies no user
\* record other than the requester's own.
C27_OnlyAdminsChangeRoles ==
  [][NonAdminRequest =>
       /\ Len(users') = Len(users)
       /\ \A i \in 1..Len(users) :
            /\ users'[i].role = users[i].role
            /\ i # account.requester.id => users'[i] = users[i]]_vars

\* a patient has made their own record an admin's
SelfPromoted ==
  /\ account.phase = "responded"
  /\ account.endpoint = "update"
  /\ account.requester.role = "patient"
  /\ account.requester.id = account.id
  /\ account.res.status = 200
  /\ account.before[account.id].role = "patient"
  /\ users[account.id].role = "admin"


\* ------------------------------------------------------------------------
\* The browser's HttpClient.request (frontend/js/api/httpClient.js) and
\* AuthenticationService.refreshToken, logout (frontend/js/api/auth.js)
\* ------------------------------------------------------------------------

\* API_CONFIG.RETRY_ATTEMPTS
RetryAttempts == 3

\* API_CONFIG.RETRY_DELAY, in milliseconds
RetryDelay == 1000

\* number of refresh calls, each awaiting the refresh call it has made
\* itself, that the model tells apart; deeper ones are folded into the last
MaxPending == 2

\* what a fetch can come to: a 2xx response, a 401, another error status,
\* a network failure (fetch rejects with a TypeError), or the abort of the
\* timeout timer
FetchOutcomes == {"ok", "unauthorized", "error", "network", "timeout"}

\* the path request(url, options, attempt) takes after its fetch: it
\* resolves, awaits AuthService.refreshToken(), retries after a delay, or
\* rejects with the named error. nullBody says that the response carries
\* the JSON text null: reading data.error of an error response then throws
\* a TypeError inside the try block, which shouldRetry accepts
AfterFetch(attempt, outcome, nullBody) ==
  IF outcome = "unauthorized" /\ attempt = 1 THEN "refresh"
  ELSE IF outcome = "ok" THEN "resolve"
  ELSE IF outcome \in {"unauthorized", "error"} /\ ~nullBody THEN "HttpError"
  ELSE IF outcome = "timeout" THEN "Timeout"
  ELSE IF attempt < RetryAttempts THEN "retry"
  ELSE "Error"

\* a call of request in progress: attempt is its third argument
Call(attempt, pc) == [attempt |-> attempt, pc |-> pc]

NoCall == Call(0, "none")

\* the page before the call: a refresh token may be in localStorage
ClientInit ==
  /\ DiagnosisInit
  /\ booking = Idle
  /\ appointments = <<>>
  /\ gate = Idle
  /\ reading = Idle
  /\ account = Idle
  /\ users = <<>>
  /\ dispensing = Idle
  /\ prescriptions = <<>>
  /\ \E tokenStored \in BOOLEAN :
       client = [phase |-> "idle", tokenStored |-> tokenStored, target |-> NoCall,
                 fetched |-> <<>>, waited |-> <<>>, refreshed |-> "none",
                 pending |-> 0, refresh |-> NoCall, result |-> FALSE,
                 loggingOut |-> FALSE, outcome |-> "none", event |-> "none",
                 nullError |-> FALSE]

\* the page calls httpClient.request(url, options)
ClientRequest ==
  /\ client.phase = "idle"
  /\ client' = [client EXCEPT !.phase = "running", !.target = Call(1, "fetch"),
                              !.event = "request"]
  /\ UNCHANGED <<diagnosisVars, appointmentVars, authVars, recordVars, userVars,
                 pharmacyVars>>

\* the fetch of the target URL comes to an end and the call runs on to
\* its next await or to its end
TargetFetch ==
  /\ client.phase = "running"
  /\ client.target.pc = "fetch"
  /\ \E outcome \in FetchOutcomes, nullBody \in BOOLEAN :
       LET attempt == client.target.attempt
           path == AfterFetch(attempt, outcome, nullBody)
           fetched == Append(client.fetched, outcome)
           nullError == \/ client.nullError
                        \/ nullBody /\ outcome \in {"unauthorized", "error"}
                                    /\ path # "refresh"
       IN  client' =
             IF path = "refresh"
               THEN [client EXCEPT !.fetched = fetched,
                                   !.target = Call(attempt, "refreshing"),
                                   !.refresh = Call(1, "posting"),
                                   !.event = "refresh"]
             ELSE IF path = "retry"
               THEN [client EXCEPT !.fetched = fetched,
                                   !.nullError = nullError,
                                   !.waited = Append(@, RetryDelay * attempt),
                                   !.target = Call(attempt, "delay"),
                                   !.event = "retry"]
             ELSE [client EXCEPT !.fetched = fetched,
                                 !.nullError = nullError,
                                 !.target = Call(attempt, "done"),
                                 !.phase = "settled",
                                 !.outcome = path,
                                 !.event = "settle"]
  /\ UNCHANGED <<diagnosisVars, appointmentVars, authVars, recordVars, userVars,
                 pharmacyVars>>

\* the delay before a retry of the target is over: request calls itself
\* with attempt + 1, and that call starts its fetch
TargetRetry ==
  /\ client.phase = "running"
  /\ client.target.pc = "delay"
  /\ client' = [client EXCEPT !.target = Call(@.attempt + 1, "fetch"),
                              !.event = "fetch"]
  /\ UNCHANGED <<diagnosisVars, appointmentVars, authVars, recordVars, userVars,
                 pharmacyVars>>

\* the same for a retry of the refresh request
RefreshRetry ==
  /\ client.phase = "running"
  /\ client.refresh.pc = "delay"
  /\ client' = [client EXCEPT !.refresh = Call(@.attempt + 1, "fetch"),
                              !.event = "fetch"]
  /\ UNCHANGED <<diagnosisVars, appointmentVars, authVars, recordVars, userVars,
                 pharmacyVars>>

\* refreshToken() reads the stored refresh token and posts it:
\* httpClient.post calls request, which starts its first fetch; without a
\* stored token it returns false at once
RefreshToken ==
  /\ client.phase = "running"
  /\ client.refresh.pc = "posting"
  /\ client' =
       IF client.tokenStored
         THEN [client EXCEPT !.refresh = Call(1, "fetch"), !.event = "post"]
         ELSE [client EXCEPT !.refresh = Call(1, "returned"), !.result = FALSE,
                             !.event = "refresh returned"]
  /\ UNCHANGED <<diagnosisVars, appointmentVars, authVars, recordVars, userVars,
                 pharmacyVars>>

\* the fetch of the refresh endpoint, made by the request that
\* refreshToken() has posted, comes to an end; a 401 on its first attempt
\* makes that request call refreshToken() in its turn. When the request
\* settles, refreshToken() has its result: true when the request resolved
\* with response.success (setAuthData stores the tokens again)
RefreshFetch ==
  /\ client.phase = "running"
  /\ client.refresh.pc = "fetch"
  /\ \E outcome \in FetchOutcomes, nullBody \in BOOLEAN, success \in BOOLEAN :
       LET attempt == client.refresh.attempt
           path == AfterFetch(attempt, outcome, nullBody)
           \* response.success of the resolved refresh request
           refreshed == path = "resolve" /\ ~nullBody /\ success
       IN  client' =
             IF path = "refresh"
               THEN [client EXCEPT
                       !.pending = IF @ < MaxPending THEN @ + 1 ELSE @,
                       !.refresh = Call(1, "posting"),
                       !.event = "nested refresh"]
             ELSE IF path = "retry"
               THEN [client EXCEPT !.refresh = Call(attempt, "delay"),
                                   !.event = "retry"]
             ELSE [client EXCEPT !.refresh = Call(attempt, "returned"),
                                 !.result = refreshed,
                                 !.event = "refresh returned"]
  /\ UNCHANGED <<diagnosisVars, appointmentVars, authVars, recordVars, userVars,
                 pharmacyVars>>

\* refreshToken() returns to the request that awaits it: on true the
\* request is made again with attempt + 1, on false logout() is called and
\* the request rejects
RefreshReturns ==
  /\ client.phase = "running"
  /\ client.refresh.pc = "returned"
  /\ client' =
       IF client.pending > 0
         THEN IF client.result
                THEN [client EXCEPT !.pending = @ - 1,
                                    !.refresh = Call(2, "fetch"),
                                    !.event = "refreshed"]
                ELSE [client EXCEPT !.pending = @ - 1,
                                    !.loggingOut = TRUE,
                                    !.event = "refresh returned"]
       ELSE IF client.result
         THEN [client EXCEPT !.refresh = NoCall,
                             !.refreshed = "yes",
                             !.target = Call(client.target.attempt + 1, "fetch"),
                             !.event = "refreshed"]
         ELSE [client EXCEPT !.refresh = NoCall,
                             !.refreshed = "no",
                             !.target = Call(client.target.attempt, "done"),
                             !.phase = "settled",
                             !.outcome = "Unauthorized",
                             !.loggingOut = TRUE,
                             !.event = "settle"]
  /\ UNCHANGED <<diagnosisVars, appointmentVars, authVars, recordVars, userVars,
                 pharmacyVars>>

\* the finally block of logout(): clearAuthData() removes the tokens
ClearAuthData ==
  /\ client.loggingOut
  /\ client' = [client EXCEPT !.loggingOut = FALSE, !.tokenStored = FALSE,
                              !.event = "logout"]
  /\ UNCHANGED <<diagnosisVars, appointmentVars, authVars, recordVars, userVars,
                 pharmacyVars>>

ClientNext ==
  \/ ClientRequest
  \/ TargetFetch
  \/ TargetRetry
  \/ RefreshToken
  \/ RefreshRetry
  \/ RefreshFetch
  \/ RefreshReturns
  \/ ClearAuthData

ClientSpec == ClientInit /\ [][ClientNext]_vars

\* every await of the call comes to an end: a fetch ends with a response, a
\* failure or the abort of the timeout timer, and timers fire
ClientFairSpec == ClientSpec /\ WF_vars(ClientNext)

\* ------------------------------------------------------------------------
\* Properties of HttpClient.request
\* ------------------------------------------------------------------------

Settled == client.phase = "settled"

\* C28: every call to httpClient.request eventually settles (resolves or
\* rejects) after a finite number of fetches, for every behaviour of the
\* server, including the case where a refresh token is stored and the
\* token-refresh endpoint itself answers 401.
C28_RequestSettles == <>Settled

\* the call settles unless the refresh endpoint answers 401 to a first
\* attempt again and again
SettlesUnlessRefreshRefused == <>Settled \/ []<>(client.event = "nested refresh")

\* C29: httpClient.request fetches the target URL at most retryAttempts (3)
\* times per call: only network-level failures are retried, after a delay of
\* retryDelay x attempt number, while a timeout and an HTTP error response
\* are reported to the caller at once; the only HTTP status that causes a
\* second fetch is a 401 on the first attempt followed by a successful token
\* refresh, and a 401 on any later attempt is reported as an HttpError
\* without another refresh.
C29_BoundedRetries ==
  LET fetched == client.fetched
      failures == { k \in 1..Len(fetched) : fetched[k] = "network" }
  IN  /\ Len(fetched) <= RetryAttempts
      /\ \A k \in 1..(Len(fetched) - 1) :
           \/ fetched[k] = "network"
           \/ k = 1 /\ fetched[1] = "unauthorized" /\ client.refreshed = "yes"
      /\ \A j \in 1..Len(client.waited) :
           \E k \in failures : client.waited[j] = RetryDelay * k
      /\ \A k \in failures :
           k < Len(fetched) =>
             \E j \in 1..Len(client.waited) : client.waited[j] = RetryDelay * k
      /\ Settled =>
           LET last == fetched[Len(fetched)]
           IN  /\ last = "timeout" => client.outcome = "Timeout"
               /\ last = "error" => client.outcome = "HttpError"
               /\ (last = "unauthorized" /\ Len(fetched) > 1) =>
                    client.outcome = "HttpError"
               /\ last = "ok" => client.outcome = "resolve"
      /\ (\E k \in 2..Len(fetched) : fetched[k] = "unauthorized") =>
           client.target.pc # "refreshing"

\* the statement holds as long as no error response carried the body null
BoundedRetriesWithoutNullBody == ~client.nullError => C29_BoundedRetries

\* the target is fetched at most RetryAttempts times whatever the bodies
AtMostRetryAttemptsFetches == Len(client.fetched) <= RetryAttempts

\* the first fetch was answered by an error status with the body null,
\* and the target has been fetched again
ErrorResponseRetried ==
  /\ Len(client.fetched) > 1
  /\ client.fetched[1] = "error"

\* a 401 on the first attempt was followed by a successful refresh, the
\* second fetch failed at network level and was retried after 2000 ms, and
\* the 401 of the third fetch was reported as an HttpError
RefreshedThenRetried ==
  /\ Settled
  /\ client.fetched = <<"unauthorized", "network", "unauthorized">>
  /\ client.refreshed = "yes"
  /\ client.waited = <<2 * RetryDelay>>
  /\ client.outcome = "HttpError"

====
